---- MODULE Spec2Model ----
(***************************************************************************)
(* Model of the fathom-to-umami reconstruction engine:                     *)
(*   exact_ipf.py       solve_exact_distribution, run_ipf_for_weights,     *)
(*                      apply_marginal_constraint_simple,                  *)
(*                      solve_integer_assignment                           *)
(*   fathom_to_umami_converter.py   create_session_visits, process_hour,   *)
(*                      generate_hour_events, process_custom_events,       *)
(*                      convert_website                                    *)
(*   simple_ipf.py      get_marginal_totals                                *)
(*   verify_reconstruction.py   load_synthetic_events,                     *)
(*                      rebuild_fathom_statistics                          *)
(* Floating point weights are modelled by exact rationals <<num, den>>.    *)
(***************************************************************************)
EXTENDS Integers, Sequences, FiniteSets, TLC

VARIABLES
    marginals,          \* dict: dimension name -> (category value -> count)
    pc,                 \* position of the call in solve_exact_distribution
    dim_names,          \* list(dimensions.keys())
    combinations,       \* the cross-product, in itertools.product order
    weights_table,      \* combination -> weight
    total_events,       \* the target N
    combo_weights,      \* the combinations sorted by weight, highest first
    idx,                \* position of the greedy walk in combo_weights
    remaining_quotas,   \* dimension -> category -> quota left
    remaining_events,   \* events still to assign
    events,             \* the events emitted so far
    cpc,                \* position of the call in create_session_visits
    cs_events,          \* create_session_visits: the parameter `events`
    visit_count,        \* target number of visits
    bounce_rate,        \* numerator of the bounce rate, in units of 1/BounceSteps
    avg_duration,       \* average visit duration, seconds
    events_copy,        \* the events not yet placed in a visit
    visits,             \* the visits built so far, each a list of events
    enhanced_events,    \* the records returned
    csv_data,           \* the exported CSV files: the hourly buckets, ascending
    indexed_data,       \* self.indexed_data: None until preload_all_data
    hpc,                \* position of the converter object's caller
    hour_idx,           \* convert_website: index of the bucket processed next
    hour_events,        \* what the last process_hour call returned
    written,            \* the rows of the output CSV, in file order
    stats,              \* self.stats
    debug_date,         \* self.debug_date as a timestamp prefix, <<>> when not set
    all_timestamps,     \* convert_website: the timestamps to process, in order
    ipc,                \* position of the call in the IPF engine
    engine,             \* "exact": run_ipf_for_weights, "simple": simple_ipf
    max_iterations,     \* the round cap of the call
    ipf_table,          \* `table`: combination -> weight, the table being fitted
    ipf_old_table,      \* `old_table`: the table at the start of the current sweep
    ipf_iteration,      \* sweeps completed
    dim_pos,            \* position of the current sweep in dim_names
    changes,            \* total_change of every completed sweep
    vpc,                \* position of the call of compare_marginals
    original,           \* compare_marginals: the parameter `original`
    reconstructed,      \* compare_marginals: the parameter `reconstructed`
    all_match           \* compare_marginals: the value returned

solverVars == <<marginals, pc, dim_names, combinations, weights_table, total_events,
                combo_weights, idx, remaining_quotas, remaining_events, events>>

composerVars == <<cpc, cs_events, visit_count, bounce_rate, avg_duration,
                  events_copy, visits, enhanced_events>>

hourVars == <<csv_data, indexed_data, hpc, hour_idx, hour_events, written, stats, debug_date,
             all_timestamps>>

ipfVars == <<ipc, engine, max_iterations, ipf_table, ipf_old_table, ipf_iteration, dim_pos,
            changes>>

verifyVars == <<vpc, original, reconstructed, all_match>>

vars == <<solverVars, composerVars, hourVars, ipfVars, verifyVars>>

----------------------------------------------------------------------------
(* Bounds of the model *)

MaxCount == 2
MaxWeight == 1
MaxEvents == 4
MaxVisits == 3
\* Bounce rates are the multiples of 1/BounceSteps in [0, 1].
BounceSteps == 4
MaxPageviews == 2
MaxHours == 2

----------------------------------------------------------------------------
(* Sequences and sets *)

Range(s) == {s[i] : i \in DOMAIN s}

RECURSIVE SumOver(_, _)
SumOver(f, S) ==
    IF S = {} THEN 0
    ELSE LET x == CHOOSE y \in S : TRUE IN f[x] + SumOver(f, S \ {x})

\* sum(totals.values())
SumValues(totals) == SumOver(totals, DOMAIN totals)

Min2(a, b) == IF a < b THEN a ELSE b

\* Python's None
None == "<None>"

RECURSIVE MaxOfSet(_)
MaxOfSet(S) ==
    LET x == CHOOSE y \in S : TRUE
    IN IF S = {x} THEN x
       ELSE LET m == MaxOfSet(S \ {x}) IN IF x > m THEN x ELSE m

\* The dimensions in the insertion order of the marginals dictionary.
DimOrder == <<"pages", "browsers", "countries", "devices", "referrers">>

\* The category values of the model in the order Python's sorted() gives strings.
CatOrder == <<"(direct)", "/a", "/b", "Chrome", "Desktop", "Safari", "US", "google.com">>

\* sorted(totals.keys())
SortedKeys(totals) == SelectSeq(CatOrder, LAMBDA c : c \in DOMAIN totals)

\* The keys of a marginals dictionary, in insertion order.
KeysOf(m) == SelectSeq(DimOrder, LAMBDA d : d \in DOMAIN m)

RECURSIVE Materialize(_, _)
\* The function f on S as an explicit table: every f[x] is computed once, like the
\* dictionary the code builds.
Materialize(f, S) ==
    IF S = {} THEN <<>>
    ELSE LET x == CHOOSE y \in S : TRUE IN (x :> f[x]) @@ Materialize(f, S \ {x})

----------------------------------------------------------------------------
(* Rationals <<n, d>> with d > 0, standing for the floats of the IPF *)

RECURSIVE GCD(_, _)
GCD(a, b) == IF b = 0 THEN a ELSE GCD(b, a % b)

Abs(x) == IF x < 0 THEN -x ELSE x

Rat(n, d) ==
    IF n = 0 THEN <<0, 1>>
    ELSE LET g == GCD(Abs(n), Abs(d)) IN <<n \div g, d \div g>>

RZero == <<0, 1>>
RAdd(a, b) == Rat(a[1] * b[2] + b[1] * a[2], a[2] * b[2])
RSub(a, b) == Rat(a[1] * b[2] - b[1] * a[2], a[2] * b[2])
RMul(a, b) == Rat(a[1] * b[1], a[2] * b[2])
\* a / b for b > 0
RDiv(a, b) == Rat(a[1] * b[2], a[2] * b[1])
RAbs(a) == <<Abs(a[1]), a[2]>>
RLess(a, b) == a[1] * b[2] < b[1] * a[2]
RPos(a) == a[1] > 0

RECURSIVE RSumOver(_, _)
RSumOver(f, S) ==
    IF S = {} THEN RZero
    ELSE LET x == CHOOSE y \in S : TRUE IN RAdd(f[x], RSumOver(f, S \ {x}))

----------------------------------------------------------------------------
(* solve_exact_distribution: the active dimensions and the cross-product *)

\* `if totals:` keeps the dimensions that have at least one category.
ActiveDims(m) == SelectSeq(KeysOf(m), LAMBDA d : DOMAIN m[d] # {})

RECURSIVE ProductOfSizes(_, _, _)
\* Number of combinations of the dimensions ds[i..Len(ds)].
ProductOfSizes(m, ds, i) ==
    IF i > Len(ds) THEN 1
    ELSE Cardinality(DOMAIN m[ds[i]]) * ProductOfSizes(m, ds, i + 1)

\* The k-th tuple (k from 0) of itertools.product over the sorted domains, as the
\* dictionary dict(zip(dim_names, combo)); the last dimension varies fastest.
ComboAt(m, ds, k) ==
    [d \in Range(ds) |->
        LET i == CHOOSE j \in DOMAIN ds : ds[j] = d
            keys == SortedKeys(m[d])
        IN keys[((k \div ProductOfSizes(m, ds, i + 1)) % Len(keys)) + 1]]

Combinations(m, ds) ==
    [k \in 1..ProductOfSizes(m, ds, 1) |-> ComboAt(m, ds, k - 1)]

\* Mutant: the smallest dimension total instead of the largest.
TotalEvents_Min(m) ==
    LET sums == {SumValues(m[d]) : d \in DOMAIN m}
    IN CHOOSE x \in sums : \A y \in sums : x <= y

\* max(sum(totals.values()) for totals in marginals.values())
TotalEvents(m) == MaxOfSet({SumValues(m[d]) : d \in DOMAIN m})

----------------------------------------------------------------------------
(* run_ipf_for_weights *)

IPFRounds == 50
ToleranceDen == 100000000

\* change < 1e-8, without multiplying by 10^8
BelowTolerance(change) ==
    LET q == change[2] \div ToleranceDen
        r == change[2] % ToleranceDen
    IN change[1] < q \/ (change[1] = q /\ r > 0)

\* Mutant: a value whose current aggregate is zero is reseeded with its target.
apply_marginal_constraint_simple_Reseed(table, constraint_dim, marginal_totals) ==
    LET current_marginals ==
            Materialize([v \in {c[constraint_dim] : c \in DOMAIN table} |->
                            RSumOver(table, {c \in DOMAIN table : c[constraint_dim] = v})],
                        {c[constraint_dim] : c \in DOMAIN table})
    IN Materialize(
        [combo \in DOMAIN table |->
            LET dim_value == combo[constraint_dim]
                current_total == current_marginals[dim_value]
                target_total == IF dim_value \in DOMAIN marginal_totals
                                THEN marginal_totals[dim_value] ELSE RZero
            IN IF RPos(current_total)
               THEN RMul(table[combo], RDiv(target_total, current_total))
               ELSE target_total],
        DOMAIN table)

apply_marginal_constraint_simple(table, constraint_dim, marginal_totals) ==
    LET current_marginals ==
            Materialize([v \in {c[constraint_dim] : c \in DOMAIN table} |->
                            RSumOver(table, {c \in DOMAIN table : c[constraint_dim] = v})],
                        {c[constraint_dim] : c \in DOMAIN table})
    IN Materialize(
        [combo \in DOMAIN table |->
            LET dim_value == combo[constraint_dim]
                current_total == current_marginals[dim_value]
                target_total == IF dim_value \in DOMAIN marginal_totals
                                THEN marginal_totals[dim_value] ELSE RZero
            IN IF RPos(current_total)
               THEN RMul(table[combo], RDiv(target_total, current_total))
               ELSE RZero],
        DOMAIN table)

RECURSIVE Sweep(_, _, _, _)
\* One pass of `for dim_name in dim_names` starting at position i.
Sweep(table, ds, normalized_marginals, i) ==
    IF i > Len(ds) THEN table
    ELSE Sweep(apply_marginal_constraint_simple(table, ds[i], normalized_marginals[ds[i]]),
               ds, normalized_marginals, i + 1)

\* Mutant: the old weights are not subtracted.
TotalChange_NoOld(table, old_table) ==
    RSumOver([k \in DOMAIN table |-> RAbs(table[k])], DOMAIN table)

TotalChange(table, old_table) ==
    RSumOver([k \in DOMAIN table |-> RAbs(RSub(table[k], old_table[k]))], DOMAIN table)

RECURSIVE IPFLoop(_, _, _, _)
\* `for iteration in range(50)` with its break; the result is [table, rounds, converged].
IPFLoop(table, ds, normalized_marginals, iteration) ==
    LET new_table == Sweep(table, ds, normalized_marginals, 1)
        done == BelowTolerance(TotalChange(new_table, table))
    IN IF done \/ iteration + 1 >= IPFRounds
       THEN [table |-> new_table, rounds |-> iteration + 1, converged |-> done]
       ELSE IPFLoop(new_table, ds, normalized_marginals, iteration + 1)

\* The division v/total_events raises ZeroDivisionError when total_events = 0.
IPFRaises(m) == ActiveDims(m) # <<>> /\ TotalEvents(m) = 0

run_ipf_for_weights(m) ==
    LET ds == ActiveDims(m)
        combos == Range(Combinations(m, ds))
        uniform == Materialize([c \in combos |-> Rat(1, Cardinality(combos))], combos)
        normalized_marginals ==
            Materialize([d \in Range(ds) |->
                            Materialize([k \in DOMAIN m[d] |-> Rat(m[d][k], TotalEvents(m))],
                                        DOMAIN m[d])],
                        Range(ds))
    IN IPFLoop(uniform, ds, normalized_marginals, 0)

----------------------------------------------------------------------------
(* solve_integer_assignment *)

\* weights_table.get(combo_tuple, 0)
WeightOf(w, combo) == IF combo \in DOMAIN w THEN w[combo] ELSE RZero

RECURSIVE InsertByWeight_BeforeTies(_, _, _)
\* Mutant: x goes before the elements of equal weight (an unstable sort).
InsertByWeight_BeforeTies(sorted, x, w) ==
    IF sorted = <<>> THEN <<x>>
    ELSE IF RLess(WeightOf(w, x), WeightOf(w, Head(sorted)))
         THEN <<Head(sorted)>> \o InsertByWeight_BeforeTies(Tail(sorted), x, w)
         ELSE <<x>> \o sorted

RECURSIVE InsertByWeight(_, _, _)
\* x goes before the first element of lighter weight, after every element of equal
\* weight: list.sort(key=weight, reverse=True) is stable.
InsertByWeight(sorted, x, w) ==
    IF sorted = <<>> THEN <<x>>
    ELSE IF RLess(WeightOf(w, Head(sorted)), WeightOf(w, x))
         THEN <<x>> \o sorted
         ELSE <<Head(sorted)>> \o InsertByWeight(Tail(sorted), x, w)

RECURSIVE SortByWeightFrom(_, _, _, _)
SortByWeightFrom(combos, w, i, acc) ==
    IF i > Len(combos) THEN acc
    ELSE SortByWeightFrom(combos, w, i + 1, InsertByWeight(acc, combos[i], w))

SortByWeight(combos, w) == SortByWeightFrom(combos, w, 1, <<>>)

\* remaining_quotas[dim_name] = totals.copy()
InitialQuotas(m) == m

\* Mutant: only the quota of the first dimension limits the assignment.
MinQuota_FirstDimOnly(acc, combo, quotas, ds, i) ==
    Min2(acc, quotas[ds[1]][combo[ds[1]]])

RECURSIVE MinQuota(_, _, _, _, _)
\* the loop `for dim_name in dim_names: max_assignable = min(max_assignable, quota_left)`
MinQuota(acc, combo, quotas, ds, i) ==
    IF i > Len(ds) THEN acc
    ELSE MinQuota(Min2(acc, quotas[ds[i]][combo[ds[i]]]), combo, quotas, ds, i + 1)

\* Mutant: the quotas are not consulted.
MaxAssignable_IgnoreQuota(combo, quotas, remaining, ds) == remaining

MaxAssignable(combo, quotas, remaining, ds) == MinQuota(remaining, combo, quotas, ds, 1)

RECURSIVE Repeat_OffByOne(_, _)
\* Mutant: one copy too few, range(max_assignable - 1).
Repeat_OffByOne(x, n) == IF n <= 1 THEN <<>> ELSE <<x>> \o Repeat_OffByOne(x, n - 1)

RECURSIVE Repeat(_, _)
Repeat(x, n) == IF n <= 0 THEN <<>> ELSE <<x>> \o Repeat(x, n - 1)

\* Mutant: only the first dimension's quota is decremented.
Decrement_FirstDimOnly(quotas, combo, ds, n) ==
    [d \in DOMAIN quotas |->
        IF d = ds[1]
        THEN [c \in DOMAIN quotas[d] |->
                IF c = combo[d] THEN quotas[d][c] - n ELSE quotas[d][c]]
        ELSE quotas[d]]

\* The quotas after `remaining_quotas[dim_name][dim_value] -= max_assignable`.
Decrement(quotas, combo, ds, n) ==
    [d \in DOMAIN quotas |->
        IF d \in Range(ds)
        THEN [c \in DOMAIN quotas[d] |->
                IF c = combo[d] THEN quotas[d][c] - n ELSE quotas[d][c]]
        ELSE quotas[d]]

\* Mutant: `remaining_events -= max_assignable` is missing.
AssignStep_KeepRemaining(st, combo, ds) ==
    LET max_assignable == MaxAssignable(combo, st.quotas, st.remaining, ds)
    IN IF max_assignable > 0
       THEN [quotas |-> Decrement(st.quotas, combo, ds, max_assignable),
             remaining |-> st.remaining,
             events |-> st.events \o Repeat(combo, max_assignable)]
       ELSE st

\* One iteration of the greedy loop on st = [quotas, remaining, events].
AssignStep(st, combo, ds) ==
    LET max_assignable == MaxAssignable(combo, st.quotas, st.remaining, ds)
    IN IF max_assignable > 0
       THEN [quotas |-> Decrement(st.quotas, combo, ds, max_assignable),
             remaining |-> st.remaining - max_assignable,
             events |-> st.events \o Repeat(combo, max_assignable)]
       ELSE st

RECURSIVE GreedyWalk(_, _, _, _)
\* The whole loop from position i, with its `if remaining_events <= 0: break`.
GreedyWalk(st, sorted, ds, i) ==
    IF i > Len(sorted) \/ st.remaining <= 0 THEN st
    ELSE GreedyWalk(AssignStep(st, sorted[i], ds), sorted, ds, i + 1)

solve_integer_assignment(combos, ds, m, w, n) ==
    GreedyWalk([quotas |-> InitialQuotas(m), remaining |-> n, events |-> <<>>],
               SortByWeight(combos, w), ds, 1).events

----------------------------------------------------------------------------
(* The inputs of the model *)

PageCats == {"/a", "/b"}
BrowserCats == {"Chrome", "Safari"}
CountryCats == {"US"}

\* Every marginal set over a subset of cats with counts in 0..MaxCount.
MarginalSets(cats) == UNION {[S -> 0..MaxCount] : S \in SUBSET cats}

\* The two scenarios of the specification's testable properties.
ScenarioFeasible ==
    [pages |-> [c \in {"/a", "/b"} |-> IF c = "/a" THEN 3 ELSE 2],
     browsers |-> [c \in {"Chrome", "Safari"} |-> IF c = "Chrome" THEN 4 ELSE 1]]

ScenarioInfeasible ==
    [pages |-> [c \in {"/a"} |-> 3],
     browsers |-> [c \in {"Chrome", "Safari"} |-> 1]]

InputMarginals ==
    {[pages |-> p, browsers |-> b, countries |-> c] :
        p \in MarginalSets(PageCats), b \in MarginalSets(BrowserCats),
        c \in MarginalSets(CountryCats)}
    \cup {ScenarioFeasible, ScenarioInfeasible}

\* Weight tables a caller of solve_integer_assignment may pass: weights in
\* 0..MaxWeight (with ties), every strict ranking of the combinations (so that
\* every visiting order occurs), or a table without entries.
WeightTables(combos) ==
    LET S == Range(combos)
        ranks == {w \in [S -> 0..(Cardinality(S) - 1)] :
                    \A a, b \in S : a # b => w[a] # w[b]}
    IN {[c \in S |-> <<w[c], 1>>] : w \in [S -> 0..MaxWeight] \cup ranks}
       \cup {<<>>}

----------------------------------------------------------------------------
(* The solver as a state machine *)

\* The IPF engine's variables while no call of it is modelled on its own.
IPFIdle ==
    /\ ipc = "idle"
    /\ engine = "exact"
    /\ max_iterations = 0
    /\ ipf_table = <<>>
    /\ ipf_old_table = <<>>
    /\ ipf_iteration = 0
    /\ dim_pos = 1
    /\ changes = <<>>

\* The verifier's variables while no call of compare_marginals is modelled.
VerifierIdle ==
    /\ vpc = "idle"
    /\ original = <<>>
    /\ reconstructed = <<>>
    /\ all_match = FALSE

\* The converter object's variables while no converter is modelled.
ConverterIdle ==
    /\ debug_date = <<>>
    /\ all_timestamps = <<>>
    /\ csv_data = <<>>
    /\ indexed_data = None
    /\ hpc = "idle"
    /\ hour_idx = 1
    /\ hour_events = <<>>
    /\ written = <<>>
    /\ stats = <<>>

\* The composer's variables while no call of create_session_visits is modelled.
ComposerIdle ==
    /\ cpc = "idle"
    /\ cs_events = <<>>
    /\ visit_count = 0
    /\ bounce_rate = 0
    /\ avg_duration = 0
    /\ events_copy = <<>>
    /\ visits = <<>>
    /\ enhanced_events = <<>>

Init ==
    /\ marginals \in InputMarginals
    /\ pc = "start"
    /\ dim_names = <<>>
    /\ combinations = <<>>
    /\ weights_table = <<>>
    /\ total_events = 0
    /\ combo_weights = <<>>
    /\ idx = 1
    /\ remaining_quotas = <<>>
    /\ remaining_events = 0
    /\ events = <<>>
    /\ ComposerIdle
    /\ ConverterIdle
    /\ IPFIdle
    /\ VerifierIdle

\* solve_integer_assignment up to the start of its loop (lines 123-140).
EnterAssignment(ds, combos, w, n) ==
    /\ dim_names' = ds
    /\ combinations' = combos
    /\ weights_table' = w
    /\ total_events' = n
    /\ combo_weights' = SortByWeight(combos, w)
    /\ idx' = 1
    /\ remaining_quotas' = InitialQuotas(marginals)
    /\ remaining_events' = n
    /\ events' = <<>>
    /\ pc' = "walk"

\* solve_exact_distribution, lines 16-42: `return [], []` without active
\* dimensions, ZeroDivisionError out of run_ipf_for_weights, or the greedy
\* assignment with the IPF table as weights.
SolveExactDistribution ==
    /\ pc = "start"
    /\ LET ds == ActiveDims(marginals) IN
       IF ds = <<>>
       THEN /\ pc' = "returned"
            /\ UNCHANGED <<dim_names, combinations, weights_table, total_events,
                           combo_weights, idx, remaining_quotas, remaining_events,
                           events>>
       ELSE IF IPFRaises(marginals)
       THEN /\ pc' = "raised"
            /\ dim_names' = ds
            /\ combinations' = Combinations(marginals, ds)
            /\ UNCHANGED <<weights_table, total_events, combo_weights, idx,
                           remaining_quotas, remaining_events, events>>
       ELSE EnterAssignment(ds, Combinations(marginals, ds),
                            run_ipf_for_weights(marginals).table,
                            TotalEvents(marginals))
    /\ UNCHANGED <<marginals, composerVars, hourVars, ipfVars, verifyVars>>

\* solve_integer_assignment called with the combinations and the total of
\* solve_exact_distribution and a weight table of the caller's choice.
SolveIntegerAssignment ==
    /\ pc = "start"
    /\ ActiveDims(marginals) # <<>>
    /\ LET ds == ActiveDims(marginals)
           combos == Combinations(marginals, ds)
       IN \E w \in WeightTables(combos) :
            EnterAssignment(ds, combos, w, TotalEvents(marginals))
    /\ UNCHANGED <<marginals, composerVars, hourVars, ipfVars, verifyVars>>

\* One iteration of `for combo_dict, weight in combo_weights` (lines 144-167).
GreedyStep ==
    /\ pc = "walk"
    /\ idx <= Len(combo_weights)
    /\ remaining_events > 0
    /\ LET st == AssignStep([quotas |-> remaining_quotas,
                             remaining |-> remaining_events,
                             events |-> events],
                            combo_weights[idx], dim_names)
       IN /\ remaining_quotas' = st.quotas
          /\ remaining_events' = st.remaining
          /\ events' = st.events
    /\ idx' = idx + 1
    /\ UNCHANGED <<marginals, pc, dim_names, combinations, weights_table,
                   total_events, combo_weights, composerVars, hourVars, ipfVars, verifyVars>>

\* The loop ends (list exhausted, or `break`) and the events are returned.
WalkReturn ==
    /\ pc = "walk"
    /\ (idx > Len(combo_weights) \/ remaining_events <= 0)
    /\ pc' = "returned"
    /\ UNCHANGED <<marginals, dim_names, combinations, weights_table, total_events,
                   combo_weights, idx, remaining_quotas, remaining_events, events,
                   composerVars, hourVars, ipfVars, verifyVars>>

Next ==
    \/ SolveExactDistribution
    \/ SolveIntegerAssignment
    \/ GreedyStep
    \/ WalkReturn

Spec == Init /\ [][Next]_vars

----------------------------------------------------------------------------
(* create_session_visits (fathom_to_umami_converter.py, full_pipeline.py) *)

\* Mutant: a half is rounded up, int(x + 0.5).
RoundHalfUp(n, d) == (2 * n + d) \div (2 * d)

\* Python's round() of the non-negative number n/d: to nearest, a half to even.
RoundHalfEven(n, d) ==
    LET q == n \div d
        r == n % d
    IN IF 2 * r < d THEN q
       ELSE IF 2 * r > d THEN q + 1
       ELSE IF q % 2 = 0 THEN q ELSE q + 1

\* bounced_visits = round(visit_count * bounce_rate), bounce_rate = k/BounceSteps
bounced_visits(V, k) == RoundHalfEven(V * k, BounceSteps)

\* Mutant: at least one multi-page visit is always planned.
multi_page_visits_AtLeastOne(V, k) ==
    IF V - bounced_visits(V, k) > 0 THEN V - bounced_visits(V, k) ELSE 1

multi_page_visits(V, k) == V - bounced_visits(V, k)

\* Mutant: events_copy.pop() takes the last event.
BounceLoop_PopLast(evs, bounced) ==
    LET n == Min2(bounced, Len(evs))
    IN [visits |-> [i \in 1..n |-> <<evs[Len(evs) + 1 - i]>>],
        events_copy |-> SubSeq(evs, 1, Len(evs) - n)]

\* `for i in range(bounced_visits): if events_copy: visits.append([events_copy.pop(0)])`
BounceLoop(evs, bounced) ==
    LET n == Min2(bounced, Len(evs))
    IN [visits |-> [i \in 1..n |-> <<evs[i]>>],
        events_copy |-> SubSeq(evs, n + 1, Len(evs))]

RECURSIVE MultiPageLoop(_, _, _, _, _, _)
\* `for i in range(multi_page_visits)`: visit i takes visit_size events from the
\* front of events_copy and is kept if it is not empty.
MultiPageLoop(copy, vs, events_per_visit, remainder, multi, i) ==
    IF i >= multi THEN [visits |-> vs, events_copy |-> copy]
    ELSE LET visit_size == events_per_visit + (IF i < remainder THEN 1 ELSE 0)
             taken == Min2(visit_size, Len(copy))
             visit == SubSeq(copy, 1, taken)
         IN MultiPageLoop(SubSeq(copy, taken + 1, Len(copy)),
                          IF visit # <<>> THEN Append(vs, visit) ELSE vs,
                          events_per_visit, remainder, multi, i + 1)

\* Mutant: all remaining events go to one visit.
Distribute_SingleVisit(copy, vs, multi) ==
    IF multi > 0 /\ copy # <<>>
    THEN [visits |-> Append(vs, copy), events_copy |-> <<>>]
    ELSE [visits |-> vs, events_copy |-> copy]

\* Lines 288-299.
Distribute(copy, vs, multi) ==
    IF multi > 0 /\ copy # <<>>
    THEN MultiPageLoop(copy, vs, Len(copy) \div multi, Len(copy) % multi, multi, 0)
    ELSE [visits |-> vs, events_copy |-> copy]

TimeSpread == 3600

EventKeys == {"pages", "browsers", "countries", "devices", "referrers"}

\* event['browsers'], event['devices'], ... raise KeyError on an event without the key
RecordRaises(event) == ~(EventKeys \subseteq DOMAIN event)

\* The offset of created_at from base_timestamp in seconds, an exact rational.
EventOffset(visit_idx, n_visits, event_idx, visit_len, n_events, D) ==
    LET visit_duration == IF n_visits = 1 THEN <<D, 1>> ELSE Rat(D * visit_len, n_events)
        visit_start_offset == IF n_visits > 1 THEN Rat(visit_idx * TimeSpread, n_visits)
                              ELSE RZero
    IN IF visit_len > 1
       THEN RAdd(visit_start_offset,
                 Rat(event_idx * visit_duration[1], visit_duration[2] * visit_len))
       ELSE visit_start_offset

\* The record of event number event_idx of visit number visit_idx (both from 0);
\* uuid4() is a fresh number: `uuids` identifiers were drawn before this visit.
EnhancedEvent(event, visit_idx, n_visits, event_idx, visit_len, n_events, D, uuids) ==
    [session_id |-> uuids + 1,
     visit_id |-> uuids + 2,
     event_id |-> uuids + 3 + event_idx,
     browser |-> event["browsers"],
     device |-> event["devices"],
     country |-> event["countries"],
     url_path |-> event["pages"],
     referrer_domain |-> IF event["referrers"] # "(direct)" THEN event["referrers"]
                         ELSE None,
     event_type |-> 1,
     created_at |-> EventOffset(visit_idx, n_visits, event_idx, visit_len, n_events, D)]

RECURSIVE EnhanceVisits(_, _, _, _, _)
\* `for visit_idx, visit in enumerate(visits)` from visit number v (from 1).
EnhanceVisits(vs, v, n_events, D, uuids) ==
    IF v > Len(vs) THEN <<>>
    ELSE LET visit == vs[v]
         IN [j \in 1..Len(visit) |->
                EnhancedEvent(visit[j], v - 1, Len(vs), j - 1, Len(visit), n_events, D,
                              uuids)]
            \o EnhanceVisits(vs, v + 1, n_events, D, uuids + 2 + Len(visit))

Flatten(vs) ==
    LET RECURSIVE F(_)
        F(i) == IF i > Len(vs) THEN <<>> ELSE vs[i] \o F(i + 1)
    IN F(1)

\* The whole function: [raised, records].
create_session_visits(evs, V, k, D) ==
    IF evs = <<>> THEN [raised |-> FALSE, records |-> <<>>]
    ELSE LET b == BounceLoop(evs, bounced_visits(V, k))
             d == Distribute(b.events_copy, b.visits, multi_page_visits(V, k))
         IN IF \E e \in Range(Flatten(d.visits)) : RecordRaises(e)
            THEN [raised |-> TRUE, records |-> <<>>]
            ELSE [raised |-> FALSE,
                  records |-> EnhanceVisits(d.visits, 1, Len(evs), D, 0)]

----------------------------------------------------------------------------
(* create_session_visits as a state machine *)

\* Average visit durations of the model, in seconds.
Durations == {0, 300, 3600}

\* Distinct events, as solve_exact_distribution returns them for five dimensions.
EventAt(i) ==
    [pages |-> IF i % 2 = 1 THEN "/a" ELSE "/b",
     browsers |-> IF ((i - 1) \div 2) % 2 = 0 THEN "Chrome" ELSE "Safari",
     countries |-> "US",
     devices |-> "Desktop",
     referrers |-> IF ((i - 1) \div 4) % 2 = 0 THEN "(direct)" ELSE "google.com"]

\* The same events when the devices dimension was not active in the solver.
WithoutDevices(e) == [d \in DOMAIN e \ {"devices"} |-> e[d]]

EventLists ==
    {[i \in 1..n |-> EventAt(i)] : n \in 0..MaxEvents}
    \cup {[i \in 1..n |-> WithoutDevices(EventAt(i))] : n \in 1..MaxEvents}

\* The solver's variables while no call of the solver is modelled.
SolverIdle ==
    /\ marginals = <<>>
    /\ pc = "idle"
    /\ dim_names = <<>>
    /\ combinations = <<>>
    /\ weights_table = <<>>
    /\ total_events = 0
    /\ combo_weights = <<>>
    /\ idx = 1
    /\ remaining_quotas = <<>>
    /\ remaining_events = 0
    /\ events = <<>>

InitComposer ==
    /\ SolverIdle
    /\ ConverterIdle
    /\ IPFIdle
    /\ VerifierIdle
    /\ cpc = "start"
    /\ cs_events \in EventLists
    /\ visit_count \in 0..MaxVisits
    /\ bounce_rate \in 0..BounceSteps
    /\ avg_duration \in Durations
    /\ events_copy = <<>>
    /\ visits = <<>>
    /\ enhanced_events = <<>>

\* Lines 270-285: `if not events: return []`, else the bounce loop.
BounceVisits ==
    /\ cpc = "start"
    /\ IF cs_events = <<>>
       THEN /\ cpc' = "done"
            /\ UNCHANGED <<events_copy, visits>>
       ELSE LET b == BounceLoop(cs_events, bounced_visits(visit_count, bounce_rate))
            IN /\ visits' = b.visits
               /\ events_copy' = b.events_copy
               /\ cpc' = "bounced"
    /\ UNCHANGED <<ipfVars, verifyVars, hourVars, solverVars, cs_events, visit_count, bounce_rate, avg_duration,
                   enhanced_events>>

\* Lines 287-299: the remaining events spread over the multi-page visits.
DistributeRemaining ==
    /\ cpc = "bounced"
    /\ LET d == Distribute(events_copy, visits,
                           multi_page_visits(visit_count, bounce_rate))
       IN /\ visits' = d.visits
          /\ events_copy' = d.events_copy
    /\ cpc' = "distributed"
    /\ UNCHANGED <<ipfVars, verifyVars, hourVars, solverVars, cs_events, visit_count, bounce_rate, avg_duration,
                   enhanced_events>>

\* Lines 301-373: identifiers and timestamps; KeyError if an event lacks a dimension.
AddMetadata ==
    /\ cpc = "distributed"
    /\ IF \E e \in Range(Flatten(visits)) : RecordRaises(e)
       THEN /\ cpc' = "raised"
            /\ UNCHANGED enhanced_events
       ELSE /\ enhanced_events' =
                   EnhanceVisits(visits, 1, Len(cs_events), avg_duration, 0)
            /\ cpc' = "done"
    /\ UNCHANGED <<ipfVars, verifyVars, hourVars, solverVars, cs_events, visit_count, bounce_rate, avg_duration,
                   events_copy, visits>>

NextComposer ==
    \/ BounceVisits
    \/ DistributeRemaining
    \/ AddMetadata

SpecComposer == InitComposer /\ [][NextComposer]_vars

----------------------------------------------------------------------------
(* add_session_modeling (validate_reconstruction.py): the composer of the
   validation script. It differs from create_session_visits in the rounding
   (int), in the identifiers (one session_id for the whole call) and in the
   timestamps (no visit start offset); the record is the event plus fields. *)

\* bounced_visits = int(visit_count * bounce_rate)
bounced_visits_int(V, k) == (V * k) \div BounceSteps

\* event_time - base_time in seconds: event_idx * time_per_event
EventTimeOffset(n_visits, event_idx, visit_len, n_events, D) ==
    LET visit_duration == IF n_visits = 1 THEN <<D, 1>> ELSE Rat(D * visit_len, n_events)
    IN IF visit_len > 1
       THEN Rat(event_idx * visit_duration[1], visit_duration[2] * visit_len)
       ELSE RZero

\* enhanced_event = event.copy() updated with the session fields; session is
\* the identifier drawn once before the loop over the visits.
SessionEvent(event, session, event_idx, visit_len, n_visits, n_events, D, uuids) ==
    [event |-> event,
     session_id |-> session,
     visit_id |-> uuids + 1,
     event_id |-> uuids + 2 + event_idx,
     event_time |-> EventTimeOffset(n_visits, event_idx, visit_len, n_events, D),
     visit_page_number |-> event_idx + 1,
     is_bounce |-> (visit_len = 1)]

RECURSIVE SessionVisits(_, _, _, _, _, _)
\* `for visit_idx, visit in enumerate(visits)` from visit number v (from 1).
SessionVisits(vs, v, session, n_events, D, uuids) ==
    IF v > Len(vs) THEN <<>>
    ELSE LET visit == vs[v]
         IN [j \in 1..Len(visit) |->
                SessionEvent(visit[j], session, j - 1, Len(visit), Len(vs), n_events, D,
                             uuids)]
            \o SessionVisits(vs, v + 1, session, n_events, D, uuids + 1 + Len(visit))

InitSessionModeling ==
    /\ SolverIdle
    /\ ConverterIdle
    /\ IPFIdle
    /\ VerifierIdle
    /\ cpc = "modeling"
    /\ cs_events \in EventLists
    /\ visit_count \in 0..MaxVisits
    /\ bounce_rate \in 0..BounceSteps
    /\ avg_duration \in Durations
    /\ events_copy = <<>>
    /\ visits = <<>>
    /\ enhanced_events = <<>>

\* Lines 97-131: `if not events: return []`, else the two partition loops.
GroupVisits ==
    /\ cpc = "modeling"
    /\ IF cs_events = <<>>
       THEN /\ cpc' = "done"
            /\ UNCHANGED <<events_copy, visits>>
       ELSE LET b == BounceLoop(cs_events, bounced_visits_int(visit_count, bounce_rate))
                d == Distribute(b.events_copy, b.visits,
                                visit_count - bounced_visits_int(visit_count, bounce_rate))
            IN /\ visits' = d.visits
               /\ events_copy' = d.events_copy
               /\ cpc' = "grouped"
    /\ UNCHANGED <<ipfVars, verifyVars, hourVars, solverVars, cs_events, visit_count,
                   bounce_rate, avg_duration, enhanced_events>>

\* Lines 136-165: one session_id, then a visit_id per visit and an event_id per event.
AddSessionMetadata ==
    /\ cpc = "grouped"
    /\ enhanced_events' = SessionVisits(visits, 1, 1, Len(cs_events), avg_duration, 1)
    /\ cpc' = "done"
    /\ UNCHANGED <<ipfVars, verifyVars, hourVars, solverVars, cs_events, visit_count,
                   bounce_rate, avg_duration, events_copy, visits>>

NextSessionModeling ==
    \/ GroupVisits
    \/ AddSessionMetadata

SpecSessionModeling == InitSessionModeling /\ [][NextSessionModeling]_vars

----------------------------------------------------------------------------
(* The hourly buckets: CSV cells, get_marginal_totals, process_hour *)

\* A CSV cell: the decimal text of an integer, the text of a float, any other
\* text, or None (a short row). A float cell holds its number in the unit of
\* its column: 1/BounceSteps for Bounce Rate, seconds for Avg Duration.
IntCell(n) == [int |-> n]
FloatCell(x) == [float |-> x]
TextCell(s) == [text |-> s]
NoneCell == [none |-> TRUE]

\* Mutant: a field that is not an integer counts as 1.
safe_int_TextIsOne(value) == IF "int" \in DOMAIN value THEN value.int ELSE 1

\* int(value) if value and str(value).strip() else 0, ValueError and TypeError -> 0
safe_int(value) == IF "int" \in DOMAIN value THEN value.int ELSE 0

\* float(value) if value and value.strip() else 0.0, in units of 1/unit
safe_float(value, unit) ==
    IF "float" \in DOMAIN value THEN value.float
    ELSE IF "int" \in DOMAIN value THEN value.int * unit
    ELSE 0

RECURSIVE Accumulate(_, _, _, _, _)
\* for row in rows: d[row[key_col]] = d.get(row[key_col], 0) + safe_int(row[count_col])
Accumulate(rows, key_col, count_col, i, d) ==
    IF i > Len(rows) THEN d
    ELSE LET key == rows[i][key_col]
             count == safe_int(rows[i][count_col])
         IN Accumulate(rows, key_col, count_col, i + 1,
                       (key :> ((IF key \in DOMAIN d THEN d[key] ELSE 0) + count)) @@ d)

RECURSIVE SumSiteRows(_, _)
\* sum(safe_int(row['Pageviews']) for row in hourly_data.get('site', []))
SumSiteRows(rows, i) ==
    IF i > Len(rows) THEN 0
    ELSE safe_int(rows[i]["Pageviews"]) + SumSiteRows(rows, i + 1)

\* Mutant: '(direct)' is added whenever the difference is not negative.
AddDirect_NotNegative(referrers, total_pageviews) ==
    LET direct_visits == total_pageviews - SumValues(referrers)
    IN IF direct_visits >= 0 THEN ("(direct)" :> direct_visits) @@ referrers
       ELSE referrers

\* `if direct_visits > 0: marginals['referrers']['(direct)'] = direct_visits`
AddDirect(referrers, total_pageviews) ==
    LET direct_visits == total_pageviews - SumValues(referrers)
    IN IF direct_visits > 0 THEN ("(direct)" :> direct_visits) @@ referrers
       ELSE referrers

get_marginal_totals(hourly_data) ==
    LET total_pageviews == SumSiteRows(hourly_data.site, 1)
        referrers == Accumulate(hourly_data.referrers, "Referrer Hostname", "Views", 1, <<>>)
    IN [pages |-> Accumulate(hourly_data.pages, "Pathname", "Views", 1, <<>>),
        browsers |-> Accumulate(hourly_data.browsers, "Browser", "Pageviews", 1, <<>>),
        countries |-> Accumulate(hourly_data.countries, "Country", "Pageviews", 1, <<>>),
        devices |-> Accumulate(hourly_data.devices, "Device Type", "Pageviews", 1, <<>>),
        referrers |-> AddDirect(referrers, total_pageviews)]

\* solve_exact_distribution as one call: [raised, events].
solve_exact_distribution(m) ==
    LET ds == ActiveDims(m)
    IN IF ds = <<>> THEN [raised |-> FALSE, events |-> <<>>]
       ELSE IF IPFRaises(m) THEN [raised |-> TRUE, events |-> <<>>]
       ELSE [raised |-> FALSE,
             events |-> solve_integer_assignment(Combinations(m, ds), ds, m,
                                                 run_ipf_for_weights(m).table,
                                                 TotalEvents(m))]

\* The forms of a bucket's Timestamp text: the export's own form
\* 'YYYY-MM-DD HH:MM:SS', another form datetime.fromisoformat accepts, and a text
\* it rejects with ValueError.
TimestampForms == {"canonical", "iso", "invalid"}

\* range(int(row['Completions'])): ValueError or TypeError unless the cell is an integer
CompletionsRaises(row) == "int" \notin DOMAIN row["Completions"]

\* A custom event record: three fresh identifiers, created_at = base_timestamp.
CustomEvent(uuids, base) ==
    [session_id |-> uuids + 1,
     visit_id |-> uuids + 2,
     event_id |-> uuids + 3,
     browser |-> "",
     device |-> "",
     country |-> "",
     url_path |-> None,
     referrer_domain |-> None,
     event_type |-> 2,
     created_at |-> <<base, 1>>]

RECURSIVE CustomEventsOfRow(_, _, _)
\* for _ in range(completions)
CustomEventsOfRow(completions, uuids, base) ==
    IF completions <= 0 THEN <<>>
    ELSE <<CustomEvent(uuids, base)>> \o CustomEventsOfRow(completions - 1, uuids + 3, base)

RECURSIVE CustomRows(_, _, _, _)
\* for row in events_data
CustomRows(events_data, i, uuids, base) ==
    IF i > Len(events_data) THEN <<>>
    ELSE LET evs == CustomEventsOfRow(events_data[i]["Completions"].int, uuids, base)
         IN evs \o CustomRows(events_data, i + 1, uuids + 3 * Len(evs), base)

\* process_custom_events: a row counts when its Timestamp equals
\* base_timestamp.strftime('%Y-%m-%d %H:%M:%S'), that is, when the bucket's
\* timestamp text has the canonical form.
process_custom_events(events_data, form, uuids, base) ==
    IF form # "canonical" THEN [raised |-> FALSE, records |-> <<>>]
    ELSE IF \E i \in DOMAIN events_data : CompletionsRaises(events_data[i])
    THEN [raised |-> TRUE, records |-> <<>>]
    ELSE [raised |-> FALSE, records |-> CustomRows(events_data, 1, uuids, base)]

\* The records of create_session_visits for base_timestamp = base (seconds) when
\* uuid0 identifiers were drawn before the call.
AtBase(records, uuid0, base) ==
    [i \in DOMAIN records |->
        [records[i] EXCEPT !.session_id = @ + uuid0,
                           !.visit_id = @ + uuid0,
                           !.event_id = @ + uuid0,
                           !.created_at = RAdd(<<base, 1>>, @)]]

\* The number of identifiers drawn once `records` are built.
LastUuid(records, uuid0) ==
    IF records = <<>> THEN uuid0 ELSE records[Len(records)].event_id

\* generate_hour_events: [raised, events]. total_pageviews is a parameter the
\* body does not use.
generate_hour_events(hourly_data, total_pageviews, total_visits, rate, duration, uuid0, base) ==
    LET raise == [raised |-> TRUE, events |-> <<>>]
        solved == solve_exact_distribution(get_marginal_totals(hourly_data))
    IN IF solved.raised \/ hourly_data.Timestamp = "invalid" THEN raise
       ELSE LET composed == create_session_visits(solved.events, total_visits, rate,
                                                  duration)
            IN IF composed.raised THEN raise
               ELSE LET pageview_events == AtBase(composed.records, uuid0, base)
                        custom == process_custom_events(hourly_data.events,
                                                        hourly_data.Timestamp,
                                                        LastUuid(pageview_events, uuid0),
                                                        base)
                    IN IF custom.raised THEN raise
                       ELSE [raised |-> FALSE,
                             events |-> pageview_events \o custom.records]

\* self.stats of a new converter
NewStats ==
    [total_hours |-> 0, total_events |-> 0, total_pageviews |-> 0,
     total_custom_events |-> 0, skipped_hours |-> 0]

CountType(evs, t) == Cardinality({i \in DOMAIN evs : evs[i].event_type = t})

\* Mutant: Visits = 0 is passed on as it is read.
process_hour_KeepZeroVisits(hourly_data, st, uuid0, base) ==
    LET skipped == [events |-> <<>>, stats |-> [st EXCEPT !.skipped_hours = @ + 1]]
    IN IF hourly_data.site = <<>> THEN skipped
       ELSE LET site_row == hourly_data.site[1]
                total_pageviews == safe_int(site_row["Pageviews"])
                total_visits == safe_int(site_row["Visits"])
                rate == safe_float(site_row["Bounce Rate"], BounceSteps)
                duration == safe_float(site_row["Avg Duration"], 1)
            IN IF total_pageviews = 0 THEN skipped
               ELSE LET g == generate_hour_events(hourly_data, total_pageviews,
                                                  total_visits, rate, duration,
                                                  uuid0, base)
                    IN IF g.raised THEN skipped
                       ELSE [events |-> g.events,
                             stats |-> [st EXCEPT
                                 !.total_events = @ + Len(g.events),
                                 !.total_pageviews = @ + CountType(g.events, 1),
                                 !.total_custom_events = @ + CountType(g.events, 2)]]

\* Mutant: the except clause returns [] without counting the hour as skipped.
process_hour_RaiseNotCounted(hourly_data, st, uuid0, base) ==
    LET skipped == [events |-> <<>>, stats |-> [st EXCEPT !.skipped_hours = @ + 1]]
    IN IF hourly_data.site = <<>> THEN skipped
       ELSE LET site_row == hourly_data.site[1]
                total_pageviews == safe_int(site_row["Pageviews"])
                visits_cell == safe_int(site_row["Visits"])
                rate_cell == safe_float(site_row["Bounce Rate"], BounceSteps)
                duration == safe_float(site_row["Avg Duration"], 1)
                total_visits == IF visits_cell = 0 THEN 1 ELSE visits_cell
                rate == IF visits_cell = 0 THEN BounceSteps ELSE rate_cell
            IN IF total_pageviews = 0 THEN skipped
               ELSE LET g == generate_hour_events(hourly_data, total_pageviews,
                                                  total_visits, rate, duration,
                                                  uuid0, base)
                    IN IF g.raised THEN [events |-> <<>>, stats |-> st]
                       ELSE [events |-> g.events,
                             stats |-> [st EXCEPT
                                 !.total_events = @ + Len(g.events),
                                 !.total_pageviews = @ + CountType(g.events, 1),
                                 !.total_custom_events = @ + CountType(g.events, 2)]]

\* process_hour once hourly_data is fetched: [events, stats].
process_hour(hourly_data, st, uuid0, base) ==
    LET skipped == [events |-> <<>>, stats |-> [st EXCEPT !.skipped_hours = @ + 1]]
    IN IF hourly_data.site = <<>> THEN skipped
       ELSE LET site_row == hourly_data.site[1]
                total_pageviews == safe_int(site_row["Pageviews"])
                visits_cell == safe_int(site_row["Visits"])
                rate_cell == safe_float(site_row["Bounce Rate"], BounceSteps)
                duration == safe_float(site_row["Avg Duration"], 1)
                total_visits == IF visits_cell = 0 THEN 1 ELSE visits_cell
                rate == IF visits_cell = 0 THEN BounceSteps ELSE rate_cell
            IN IF total_pageviews = 0 THEN skipped
               ELSE LET g == generate_hour_events(hourly_data, total_pageviews,
                                                  total_visits, rate, duration,
                                                  uuid0, base)
                    IN IF g.raised THEN skipped
                       ELSE [events |-> g.events,
                             stats |-> [st EXCEPT
                                 !.total_events = @ + Len(g.events),
                                 !.total_pageviews = @ + CountType(g.events, 1),
                                 !.total_custom_events = @ + CountType(g.events, 2)]]

----------------------------------------------------------------------------
(* The output CSV and verify_reconstruction.py *)

\* csv.DictWriter writes None as the empty field.
CsvText(x) == IF x = None THEN "" ELSE x

\* write_events_to_csv: the rows appended for `evs`.
CsvRows(evs) ==
    [i \in DOMAIN evs |->
        [evs[i] EXCEPT !.url_path = CsvText(@), !.referrer_domain = CsvText(@)]]

\* load_synthetic_events: the pageview rows, `row['referrer_domain'] or '(direct)'`.
load_synthetic_events(rows) ==
    LET pageviews == SelectSeq(rows, LAMBDA r : r.event_type = 1)
    IN [i \in DOMAIN pageviews |->
           [timestamp |-> pageviews[i].created_at,
            url_path |-> pageviews[i].url_path,
            browser |-> pageviews[i].browser,
            country |-> pageviews[i].country,
            device |-> pageviews[i].device,
            referrer_domain |-> IF pageviews[i].referrer_domain = "" THEN "(direct)"
                                ELSE pageviews[i].referrer_domain,
            visit_id |-> pageviews[i].visit_id,
            session_id |-> pageviews[i].session_id]]

\* strftime('%Y-%m-%d %H:00:00'): the hour a time (rational seconds >= 0) lies in.
HourKey(t) == t[1] \div (t[2] * TimeSpread)

CountBy(evs, S, field) ==
    [c \in {evs[i][field] : i \in S} |-> Cardinality({i \in S : evs[i][field] = c})]

rebuild_fathom_statistics(evs) ==
    [h \in {HourKey(evs[i].timestamp) : i \in DOMAIN evs} |->
        LET S == {i \in DOMAIN evs : HourKey(evs[i].timestamp) = h}
        IN [site |-> [Pageviews |-> Cardinality(S),
                      Visits |-> Cardinality({evs[i].visit_id : i \in S})],
            pages |-> CountBy(evs, S, "url_path"),
            browsers |-> CountBy(evs, S, "browser"),
            countries |-> CountBy(evs, S, "country"),
            devices |-> CountBy(evs, S, "device"),
            referrers |-> CountBy(evs, S, "referrer_domain")]]

----------------------------------------------------------------------------
(* The exported buckets of the model *)

\* The rows of a dimension file for one bucket, one row per category.
TableRows(t, key_col, count_col) ==
    LET keys == SortedKeys(t)
    IN [i \in 1..Len(keys) |-> (key_col :> keys[i]) @@ (count_col :> IntCell(t[keys[i]]))]

SiteRow(pageviews, visit_cell, rate_cell, duration_cell) ==
    ("Pageviews" :> pageviews) @@ ("Visits" :> visit_cell)
    @@ ("Bounce Rate" :> rate_cell) @@ ("Avg Duration" :> duration_cell)

Bucket(site, pages, browsers, countries, devices, referrers, custom, form) ==
    [Timestamp |-> form,
     site |-> site,
     pages |-> pages,
     browsers |-> browsers,
     countries |-> countries,
     devices |-> devices,
     referrers |-> referrers,
     events |-> custom]

\* A bucket whose files agree: every dimension sums to the site's Pageviews.
Consistent(n, V, k, D, pages, browsers, referrers, custom) ==
    Bucket(<<SiteRow(IntCell(n), IntCell(V), FloatCell(k), FloatCell(D))>>,
           TableRows(pages, "Pathname", "Views"),
           TableRows(browsers, "Browser", "Pageviews"),
           TableRows([c \in {"US"} |-> n], "Country", "Pageviews"),
           TableRows([c \in {"Desktop"} |-> n], "Device Type", "Pageviews"),
           TableRows(referrers, "Referrer Hostname", "Views"),
           custom, "canonical")

\* The tables over a non-empty subset of cats whose counts sum to n.
TablesSumming(cats, n) ==
    {t \in UNION {[S -> 0..n] : S \in SUBSET cats \ {{}}} : SumValues(t) = n}

\* Referrers.csv: no row, or google.com with at most n views.
ReferrerTables(n) == {<<>>} \cup {[c \in {"google.com"} |-> g] : g \in 0..n}

\* Browsers.csv: one browser, or two with one view for the second.
BrowserTables(n) ==
    {[c \in {"Chrome"} |-> n],
     [c \in BrowserCats |-> IF c = "Chrome" THEN n - 1 ELSE 1]}

HourDurations == {0, 3600}

ConsistentBuckets ==
    UNION {{Consistent(n, V, k, D, p, b, r, <<>>) :
                V \in 0..MaxVisits, k \in 0..BounceSteps, D \in HourDurations,
                p \in TablesSumming(PageCats, n), b \in BrowserTables(n),
                r \in ReferrerTables(n)} :
           n \in 1..MaxPageviews}

CompletionsRow(cell) == ("Completions" :> cell)

\* A consistent bucket over one category per dimension.
Plain(n, V, k, custom) ==
    Consistent(n, V, k, 0, [c \in {"/a"} |-> n], [c \in {"Chrome"} |-> n], <<>>, custom)

\* The defects of an export, each applied to a plain bucket.
Defects(b, n) ==
    {[b EXCEPT !.site = <<>>]}
    \cup {[b EXCEPT !.site[1]["Pageviews"] = cell] :
            cell \in {IntCell(0), TextCell(""), TextCell("abc"), NoneCell}}
    \cup {[b EXCEPT !.site[1]["Visits"] = cell] : cell \in {TextCell(""), NoneCell}}
    \cup {[b EXCEPT !.site[1]["Bounce Rate"] = cell] : cell \in {TextCell(""), IntCell(1)}}
    \cup {[b EXCEPT ![d] = <<>>] : d \in {"pages", "browsers", "countries", "devices"}}
    \cup {[b EXCEPT !.pages = <<>>, !.browsers = <<>>, !.countries = <<>>,
                    !.devices = <<>>]}
    \cup {[b EXCEPT !.pages[1]["Views"] = IntCell(n + 1)],
          [b EXCEPT !.browsers[1]["Pageviews"] = IntCell(n - 1)],
          [b EXCEPT !.countries[1]["Pageviews"] = IntCell(0)],
          [b EXCEPT !.referrers = TableRows([c \in {"google.com"} |-> n + 1],
                                            "Referrer Hostname", "Views")]}
    \cup {[b EXCEPT !.pages = @ \o <<("Pathname" :> "/a") @@ ("Views" :> TextCell("abc")),
                                     ("Pathname" :> "/b") @@ ("Views" :> NoneCell)>>]}
    \cup {[b EXCEPT !.events = rows] :
            rows \in {<<CompletionsRow(IntCell(1))>>,
                      <<CompletionsRow(IntCell(2)), CompletionsRow(IntCell(0))>>,
                      <<CompletionsRow(TextCell("x"))>>,
                      <<CompletionsRow(IntCell(1)), CompletionsRow(NoneCell)>>}}
    \cup {[b EXCEPT !.Timestamp = form, !.events = <<CompletionsRow(IntCell(1))>>] :
            form \in TimestampForms \ {"canonical"}}

DefectiveBuckets ==
    UNION {Defects(Plain(n, V, k, <<>>), n) :
              n \in 1..MaxPageviews, V \in {0, 1, MaxVisits}, k \in {0, BounceSteps}}

\* The buckets that exports of several hours are made of.
FewBuckets ==
    {Plain(1, 1, 0, <<>>),
     Plain(2, 1, BounceSteps, <<CompletionsRow(IntCell(1))>>),
     Plain(1, 1, 0, <<CompletionsRow(TextCell("x"))>>),
     [Plain(1, 1, 0, <<>>) EXCEPT !.site[1]["Pageviews"] = IntCell(0)],
     [Plain(1, 1, 0, <<>>) EXCEPT !.devices = <<>>],
     Consistent(4, 2, BounceSteps \div 2, 3600, [c \in PageCats |-> 2],
                [c \in {"Chrome"} |-> 4], <<>>, <<>>)}

\* The exports: the buckets by ascending timestamp, one hour apart.
Exports ==
    {<<>>}
    \cup {<<b>> : b \in ConsistentBuckets \cup DefectiveBuckets}
    \cup UNION {[1..n -> FewBuckets] : n \in 2..MaxHours}

----------------------------------------------------------------------------
(* The converter object as a state machine *)

InitConverter ==
    /\ SolverIdle
    /\ ComposerIdle
    /\ IPFIdle
    /\ VerifierIdle
    /\ debug_date = <<>>
    /\ all_timestamps = <<>>
    /\ csv_data \in Exports
    /\ indexed_data = None
    /\ hpc = "new"
    /\ hour_idx = 1
    /\ hour_events = <<>>
    /\ written = <<>>
    /\ stats = NewStats

\* base_timestamp of bucket i, in seconds after the first bucket
BaseOf(i) == (i - 1) * TimeSpread

\* convert_website, lines 102-131: preload_all_data, the sorted timestamps,
\* `if not all_timestamps: return`, init_csv_file.
ConvertStart ==
    /\ hpc = "new"
    /\ indexed_data' = csv_data
    /\ hpc' = IF csv_data = <<>> THEN "finished" ELSE "converting"
    /\ UNCHANGED <<ipfVars, verifyVars, solverVars, composerVars, debug_date, all_timestamps, csv_data, hour_idx, hour_events, written,
                   stats>>

\* convert_website, lines 133-151: one iteration of the loop over the timestamps.
ConvertHour ==
    /\ hpc = "converting"
    /\ hour_idx <= Len(indexed_data)
    /\ LET r == process_hour(indexed_data[hour_idx], stats, LastUuid(written, 0),
                             BaseOf(hour_idx))
       IN /\ hour_events' = r.events
          /\ written' = written \o CsvRows(r.events)
          /\ stats' = [r.stats EXCEPT !.total_hours = @ + 1]
    /\ hour_idx' = hour_idx + 1
    /\ UNCHANGED <<ipfVars, verifyVars, solverVars, composerVars, debug_date, all_timestamps, csv_data, indexed_data, hpc>>

\* convert_website, lines 152-154: the loop is over, the file is closed.
ConvertFinish ==
    /\ hpc = "converting"
    /\ hour_idx > Len(indexed_data)
    /\ hpc' = "finished"
    /\ UNCHANGED <<ipfVars, verifyVars, solverVars, composerVars, debug_date, all_timestamps, csv_data, indexed_data, hour_idx,
                   hour_events, written, stats>>

\* process_hour on a new converter, as test_subset.py calls it for the first
\* timestamp of Site.csv: get_hourly_data_fast raises RuntimeError.
ProcessHourNotLoaded ==
    /\ hpc = "new"
    /\ csv_data # <<>>
    /\ indexed_data = None
    /\ hpc' = "failed"
    /\ UNCHANGED <<ipfVars, verifyVars, solverVars, composerVars, debug_date, all_timestamps, csv_data, indexed_data, hour_idx,
                   hour_events, written, stats>>

NextConverter ==
    \/ ConvertStart
    \/ ConvertHour
    \/ ConvertFinish
    \/ ProcessHourNotLoaded

SpecConverter == InitConverter /\ [][NextConverter]_vars

----------------------------------------------------------------------------
(* convert_website over timestamps: the index of preload_all_data, the sorted
   keys and the debug-date filter. A timestamp 'YYYY-MM-DD HH:00:00' is the
   sequence <<date, hour>>; str.startswith is the prefix relation and the
   order of sorted() is the lexicographic one. *)

\* The dates and hours of the exports of this part.
Dates == 1..2
Hours == 1..2
Timestamps == {<<d, h>> : d \in Dates, h \in Hours}

\* ts.startswith(prefix)
StartsWith(ts, prefix) ==
    Len(prefix) <= Len(ts) /\ SubSeq(ts, 1, Len(prefix)) = prefix

RECURSIVE LexLess(_, _)
\* a < b for two strings
LexLess(a, b) ==
    IF b = <<>> THEN FALSE
    ELSE IF a = <<>> THEN TRUE
    ELSE IF Head(a) # Head(b) THEN Head(a) < Head(b)
    ELSE LexLess(Tail(a), Tail(b))

RECURSIVE SortedSet_Descending(_)
\* Mutant: sorted(..., reverse=True).
SortedSet_Descending(S) ==
    IF S = {} THEN <<>>
    ELSE LET m == CHOOSE x \in S : \A y \in S : y = x \/ LexLess(y, x)
         IN <<m>> \o SortedSet_Descending(S \ {m})

RECURSIVE SortedSet(_)
\* sorted(self.indexed_data.keys())
SortedSet(S) ==
    IF S = {} THEN <<>>
    ELSE LET m == CHOOSE x \in S : \A y \in S : y = x \/ LexLess(x, y)
         IN <<m>> \o SortedSet(S \ {m})

\* Site.csv and the dimension files of the hour ts: ts[2] pageviews in one visit.
HourRows(ts) == [ts |-> ts, bucket |-> Plain(ts[2], 1, 0, <<>>)]

\* The exports in file order: up to MaxHours + 1 hours, no timestamp twice.
FileOrders ==
    {f \in UNION {[1..n -> Timestamps] : n \in 0..(MaxHours + 1)} :
        \A i, j \in DOMAIN f : i # j => f[i] # f[j]}

\* --debug-date values: not given, a date of the export, or a date without rows
DebugDates == {<<>>} \cup {<<d>> : d \in Dates} \cup {<<3>>}

\* self.indexed_data[timestamp][data_type].append(row) over all rows
IndexByTimestamp(rows) ==
    [ts \in {rows[i].ts : i \in DOMAIN rows} |->
        rows[CHOOSE i \in DOMAIN rows : rows[i].ts = ts].bucket]

\* Seconds from the first hour of the first date to the hour ts.
BaseOfTimestamp(ts) == ((ts[1] - 1) * 24 + (ts[2] - 1)) * TimeSpread

InitOrder ==
    /\ SolverIdle
    /\ ComposerIdle
    /\ IPFIdle
    /\ VerifierIdle
    /\ debug_date \in DebugDates
    /\ all_timestamps = <<>>
    /\ \E f \in FileOrders : csv_data = [i \in DOMAIN f |-> HourRows(f[i])]
    /\ indexed_data = None
    /\ hpc = "new"
    /\ hour_idx = 1
    /\ hour_events = <<>>
    /\ written = <<>>
    /\ stats = NewStats

\* convert_website, lines 102-131: preload_all_data, the sorted timestamps, the
\* debug-date filter, `if not all_timestamps: return`, init_csv_file.
OrderStart ==
    /\ hpc = "new"
    /\ indexed_data' = IndexByTimestamp(csv_data)
    /\ LET sorted == SortedSet(DOMAIN IndexByTimestamp(csv_data))
           kept == IF debug_date # <<>>
                   THEN SelectSeq(sorted, LAMBDA ts : StartsWith(ts, debug_date))
                   ELSE sorted
       IN /\ all_timestamps' = kept
          /\ hpc' = IF kept = <<>> THEN "finished" ELSE "converting"
    /\ UNCHANGED <<ipfVars, verifyVars, solverVars, composerVars, debug_date, csv_data,
                   hour_idx, hour_events, written, stats>>

\* convert_website, lines 133-151: one iteration of `for i, timestamp_str in
\* enumerate(all_timestamps)`: process_hour, write_events_to_csv, total_hours.
OrderHour ==
    /\ hpc = "converting"
    /\ hour_idx <= Len(all_timestamps)
    /\ LET timestamp_str == all_timestamps[hour_idx]
           r == process_hour(indexed_data[timestamp_str], stats, LastUuid(written, 0),
                             BaseOfTimestamp(timestamp_str))
       IN /\ hour_events' = r.events
          /\ written' = written \o CsvRows(r.events)
          /\ stats' = [r.stats EXCEPT !.total_hours = @ + 1]
    /\ hour_idx' = hour_idx + 1
    /\ UNCHANGED <<ipfVars, verifyVars, solverVars, composerVars, debug_date,
                   all_timestamps, csv_data, indexed_data, hpc>>

\* convert_website, lines 152-154: the loop is over, the file is closed.
OrderFinish ==
    /\ hpc = "converting"
    /\ hour_idx > Len(all_timestamps)
    /\ hpc' = "finished"
    /\ UNCHANGED <<ipfVars, verifyVars, solverVars, composerVars, debug_date,
                   all_timestamps, csv_data, indexed_data, hour_idx, hour_events, written,
                   stats>>

NextOrder ==
    \/ OrderStart
    \/ OrderHour
    \/ OrderFinish

SpecOrder == InitOrder /\ [][NextOrder]_vars

----------------------------------------------------------------------------
(* generate_hour_events up to the solver: get_marginal_totals, then
   solve_exact_distribution, on one bucket *)

\* What a count field of an export can hold.
CountCells(n) ==
    {IntCell(i) : i \in 0..(n + 1)}
    \cup {TextCell(""), TextCell(" "), TextCell("abc"), NoneCell}

ReferrerRow(cell) == ("Referrer Hostname" :> "google.com") @@ ("Views" :> cell)

PageRow(path, cell) == ("Pathname" :> path) @@ ("Views" :> cell)

\* Referrers.csv of a bucket: at most two rows of one hostname.
ReferrerRowSets(n) ==
    {<<>>}
    \cup {<<ReferrerRow(c)>> : c \in CountCells(n)}
    \cup {<<ReferrerRow(c), ReferrerRow(d)>> : c, d \in CountCells(n)}

\* Pages.csv of a bucket: two rows, of the same page or of two pages.
PageRowSets(n) ==
    {<<PageRow(p, c), PageRow(q, d)>> : p, q \in PageCats, c, d \in CountCells(n)}

ExtractionBuckets ==
    UNION {{[Plain(n, 1, 0, <<>>) EXCEPT !.referrers = rows] : rows \in ReferrerRowSets(n)}
           \cup {[Plain(n, 1, 0, <<>>) EXCEPT !.pages = rows] : rows \in PageRowSets(n)}
           \cup {Consistent(n, 1, 0, 0, p, b, r, <<>>) :
                    p \in TablesSumming(PageCats, n), b \in BrowserTables(n),
                    r \in ReferrerTables(n)} :
           n \in 0..MaxPageviews}
    \cup DefectiveBuckets

InitBucket ==
    /\ ComposerIdle
    /\ IPFIdle
    /\ VerifierIdle
    /\ debug_date = <<>>
    /\ all_timestamps = <<>>
    /\ csv_data \in {<<b>> : b \in ExtractionBuckets}
    /\ indexed_data = csv_data
    /\ hpc = "generating"
    /\ hour_idx = 1
    /\ hour_events = <<>>
    /\ written = <<>>
    /\ stats = NewStats
    /\ marginals = <<>>
    /\ pc = "extract"
    /\ dim_names = <<>>
    /\ combinations = <<>>
    /\ weights_table = <<>>
    /\ total_events = 0
    /\ combo_weights = <<>>
    /\ idx = 1
    /\ remaining_quotas = <<>>
    /\ remaining_events = 0
    /\ events = <<>>

\* generate_hour_events, line 242: marginals = get_marginal_totals(hourly_data)
GetMarginalTotals ==
    /\ pc = "extract"
    /\ marginals' = get_marginal_totals(indexed_data[hour_idx])
    /\ pc' = "start"
    /\ UNCHANGED <<dim_names, combinations, weights_table, total_events, combo_weights,
                   idx, remaining_quotas, remaining_events, events, composerVars,
                   hourVars, ipfVars, verifyVars>>

NextBucket ==
    \/ GetMarginalTotals
    \/ SolveExactDistribution
    \/ GreedyStep
    \/ WalkReturn

SpecBucket == InitBucket /\ [][NextBucket]_vars

----------------------------------------------------------------------------
(* The IPF engines as a state machine: run_ipf_for_weights (exact_ipf.py) and
   simple_ipf (simple_ipf.py) share the loop; they differ in the round cap,
   the tolerance and the final scaling. *)

\* tolerance=1e-6, the default of simple_ipf
SimpleToleranceDen == 1000000

\* change < 1/den, without multiplying by den
BelowToleranceOf(change, den) ==
    LET q == change[2] \div den
        r == change[2] % den
    IN change[1] < q \/ (change[1] = q /\ r > 0)

ToleranceDenOf(e) == IF e = "exact" THEN ToleranceDen ELSE SimpleToleranceDen

\* The calls that are modelled: run_ipf_for_weights(marginals), simple_ipf(marginals)
\* and simple_ipf(marginals, max_iterations=1).
EngineCalls == {<<"exact", IPFRounds>>, <<"simple", IPFRounds>>, <<"simple", 1>>}

\* table[combo] = 1.0, then table[key] /= total
UniformTable(m) ==
    LET combos == Range(Combinations(m, ActiveDims(m)))
    IN Materialize([c \in combos |-> Rat(1, Cardinality(combos))], combos)

\* {k: v/total_events for k, v in totals.items()} for every non-empty dimension
NormalizedMarginals(m) ==
    Materialize([d \in Range(ActiveDims(m)) |->
                    Materialize([k \in DOMAIN m[d] |-> Rat(m[d][k], TotalEvents(m))],
                                DOMAIN m[d])],
                Range(ActiveDims(m)))

\* Mutant: the loop has no `break`.
LoopEnds_NoBreak(change, iteration, e, cap) == iteration + 1 >= cap

\* The loop ends after this sweep: `if total_change < tolerance: break`, or the
\* range of the `for` is exhausted.
LoopEnds(change, iteration, e, cap) ==
    BelowToleranceOf(change, ToleranceDenOf(e)) \/ iteration + 1 >= cap

\* simple_ipf scales back: table[key] *= total_events; run_ipf_for_weights
\* returns the probabilities.
ReturnedTable(table, e, n) ==
    IF e = "simple"
    THEN Materialize([c \in DOMAIN table |-> RMul(table[c], <<n, 1>>)], DOMAIN table)
    ELSE table

\* Marginal inputs with at least one non-empty dimension.
IPFInputs == {m \in InputMarginals : ActiveDims(m) # <<>>}

InitIPF ==
    /\ ComposerIdle
    /\ ConverterIdle
    /\ VerifierIdle
    /\ marginals \in IPFInputs
    /\ pc = "idle"
    /\ dim_names = <<>>
    /\ combinations = <<>>
    /\ weights_table = <<>>
    /\ total_events = 0
    /\ combo_weights = <<>>
    /\ idx = 1
    /\ remaining_quotas = <<>>
    /\ remaining_events = 0
    /\ events = <<>>
    /\ ipc = "start"
    /\ \E call \in EngineCalls : engine = call[1] /\ max_iterations = call[2]
    /\ ipf_table = <<>>
    /\ ipf_old_table = <<>>
    /\ ipf_iteration = 0
    /\ dim_pos = 1
    /\ changes = <<>>

\* Everything before the loop, and `old_table = table.copy()` of the first
\* sweep. The division v/total_events raises ZeroDivisionError when every
\* count is 0.
IPFStart ==
    /\ ipc = "start"
    /\ IF TotalEvents(marginals) = 0
       THEN /\ ipc' = "raised"
            /\ UNCHANGED <<dim_names, total_events, ipf_table, ipf_old_table>>
       ELSE /\ ipc' = "rescale"
            /\ dim_names' = ActiveDims(marginals)
            /\ total_events' = TotalEvents(marginals)
            /\ ipf_table' = UniformTable(marginals)
            /\ ipf_old_table' = UniformTable(marginals)
    /\ UNCHANGED <<marginals, pc, combinations, weights_table, combo_weights, idx,
                   remaining_quotas, remaining_events, events, engine, max_iterations,
                   ipf_iteration, dim_pos, changes, composerVars, hourVars, verifyVars>>

\* One turn of `for dim_name in dim_names`: the table is rescaled to the
\* marginal of dim_names[dim_pos].
IPFRescale ==
    /\ ipc = "rescale"
    /\ ipf_table' = apply_marginal_constraint_simple(ipf_table, dim_names[dim_pos],
                        NormalizedMarginals(marginals)[dim_names[dim_pos]])
    /\ dim_pos' = dim_pos + 1
    /\ ipc' = IF dim_pos = Len(dim_names) THEN "check" ELSE "rescale"
    /\ UNCHANGED <<solverVars, engine, max_iterations, ipf_old_table, ipf_iteration,
                   changes, composerVars, hourVars, verifyVars>>

\* The convergence check at the end of a sweep; then the next sweep begins
\* with old_table = table.copy(), or the function returns.
IPFCheck ==
    /\ ipc = "check"
    /\ LET total_change == TotalChange(ipf_table, ipf_old_table)
       IN /\ changes' = Append(changes, total_change)
          /\ ipf_iteration' = ipf_iteration + 1
          /\ IF LoopEnds(total_change, ipf_iteration, engine, max_iterations)
             THEN /\ ipc' = "returned"
                  /\ ipf_table' = ReturnedTable(ipf_table, engine, total_events)
                  /\ UNCHANGED <<ipf_old_table, dim_pos>>
             ELSE /\ ipc' = "rescale"
                  /\ ipf_old_table' = ipf_table
                  /\ dim_pos' = 1
                  /\ UNCHANGED ipf_table
    /\ UNCHANGED <<solverVars, engine, max_iterations, composerVars, hourVars,
                   verifyVars>>

NextIPF ==
    \/ IPFStart
    \/ IPFRescale
    \/ IPFCheck

SpecIPF == InitIPF /\ [][NextIPF]_vars

----------------------------------------------------------------------------
(* validate_reconstruction.py: reconstruct_marginals_from_events and
   compare_marginals *)

\* d.get(k, default)
DictGet(d, k, default) == IF k \in DOMAIN d THEN d[k] ELSE default

\* Mutant: the read is a setdefault(k, 0), which inserts the missing key.
AfterGet_SetDefault(d, k) == IF k \in DOMAIN d THEN d ELSE (k :> 0) @@ d

\* The dictionary d after d.get(k, default): a read inserts nothing.
AfterGet(d, k) == d

\* m after its entry for dim, when it has one, went through the reads of a loop.
AfterReads(m, dim, d) == IF dim \in DOMAIN m THEN [m EXCEPT ![dim] = d] ELSE m

\* reconstructed[dim][event[dim]] += 1 over all events, then dict(v): a category
\* is a key exactly when some event carries it.
reconstruct_marginals_from_events(evs) ==
    [dim \in Range(DimOrder) |->
        LET seen == {evs[i][dim] : i \in DOMAIN evs}
        IN Materialize([c \in seen |-> Cardinality({i \in DOMAIN evs : evs[i][dim] = c})],
                       seen)]

RECURSIVE CompareKeys(_, _, _, _)
\* `for key in sorted(all_keys)` of one dimension from position i, on
\* st = [all_match, original, reconstructed].
CompareKeys(st, dim, keys, i) ==
    IF i > Len(keys) THEN st
    ELSE LET orig_dict == DictGet(st.original, dim, <<>>)
             recon_dict == DictGet(st.reconstructed, dim, <<>>)
             orig_val == DictGet(orig_dict, keys[i], 0)
             recon_val == DictGet(recon_dict, keys[i], 0)
         IN CompareKeys(
                [all_match |-> st.all_match /\ orig_val = recon_val,
                 original |-> AfterReads(st.original, dim, AfterGet(orig_dict, keys[i])),
                 reconstructed |->
                     AfterReads(st.reconstructed, dim, AfterGet(recon_dict, keys[i]))],
                dim, keys, i + 1)

RECURSIVE CompareDims(_, _)
\* `for dim in ['pages', 'browsers', 'countries', 'devices', 'referrers']`
CompareDims(st, j) ==
    IF j > Len(DimOrder) THEN st
    ELSE LET dim == DimOrder[j]
             all_keys == DOMAIN DictGet(st.original, dim, <<>>)
                         \cup DOMAIN DictGet(st.reconstructed, dim, <<>>)
             keys == SelectSeq(CatOrder, LAMBDA c : c \in all_keys)
         IN CompareDims(CompareKeys(st, dim, keys, 1), j + 1)

\* The result and the two arguments as the call leaves them.
compare_marginals(orig, recon) ==
    CompareDims([all_match |-> TRUE, original |-> orig, reconstructed |-> recon], 1)

\* Events with all five dimensions; the page varies.
VerifierEvent(page) ==
    [pages |-> page, browsers |-> "Chrome", countries |-> "US", devices |-> "Desktop",
     referrers |-> "(direct)"]

VerifierEvents ==
    UNION {[1..n -> {VerifierEvent(p) : p \in PageCats}] : n \in 0..MaxCount}

\* No entry, or one category with a positive count.
OneCategory(c) == {<<>>} \cup {(c :> k) : k \in 1..MaxCount}

\* Original marginals as get_marginal_totals returns them, and the same without
\* the 'referrers' key.
VerifierOriginals ==
    {[pages |-> p, browsers |-> b, countries |-> c, devices |-> d, referrers |-> r] :
        p \in MarginalSets(PageCats), b \in MarginalSets({"Chrome"}),
        c \in OneCategory("US"), d \in OneCategory("Desktop"),
        r \in OneCategory("(direct)")}
    \cup {[pages |-> p, browsers |-> b, countries |-> c, devices |-> d] :
            p \in MarginalSets(PageCats), b \in MarginalSets({"Chrome"}),
            c \in OneCategory("US"), d \in OneCategory("Desktop")}

InitVerify ==
    /\ ComposerIdle
    /\ ConverterIdle
    /\ IPFIdle
    /\ marginals = <<>>
    /\ pc = "idle"
    /\ dim_names = <<>>
    /\ combinations = <<>>
    /\ weights_table = <<>>
    /\ total_events = 0
    /\ combo_weights = <<>>
    /\ idx = 1
    /\ remaining_quotas = <<>>
    /\ remaining_events = 0
    /\ events \in VerifierEvents
    /\ vpc = "reconstruct"
    /\ original \in VerifierOriginals
    /\ reconstructed = <<>>
    /\ all_match = FALSE

\* reconstructed = reconstruct_marginals_from_events(events)
ReconstructMarginals ==
    /\ vpc = "reconstruct"
    /\ reconstructed' = reconstruct_marginals_from_events(events)
    /\ vpc' = "compare"
    /\ UNCHANGED <<original, all_match, solverVars, composerVars, hourVars, ipfVars>>

\* success = compare_marginals(original, reconstructed)
CompareMarginals ==
    /\ vpc = "compare"
    /\ LET result == compare_marginals(original, reconstructed)
       IN /\ all_match' = result.all_match
          /\ original' = result.original
          /\ reconstructed' = result.reconstructed
    /\ vpc' = "compared"
    /\ UNCHANGED <<solverVars, composerVars, hourVars, ipfVars>>

NextVerify ==
    \/ ReconstructMarginals
    \/ CompareMarginals

SpecVerify == InitVerify /\ [][NextVerify]_vars

----------------------------------------------------------------------------
(* verify_reconstruction.py: compare_statistics on the original and the
   rebuilt per-hour statistics; timestamps are numbered in sorted order *)

\* sorted(list(common_timestamps))[:10]
SampleSize == 10

\* The largest number of hours in the statistics of this part.
MaxCompared == 11

\* The statistics of one hour with n pageviews in v visits, one category per
\* dimension.
HourStatistics(n, v) ==
    [site |-> [Pageviews |-> n, Visits |-> v],
     pages |-> ("/a" :> n),
     browsers |-> ("Chrome" :> n),
     countries |-> ("US" :> n),
     devices |-> ("Desktop" :> n),
     referrers |-> ("(direct)" :> n)]

\* The ways a rebuilt hour differs from the original one.
Differences(s) ==
    {[s EXCEPT !.site.Pageviews = @ + 1], [s EXCEPT !.site.Visits = @ + 1]}
    \cup {[s EXCEPT ![d] = ("(other)" :> 1) @@ @] : d \in Range(DimOrder)}

\* Rebuilt statistics of the hours 1..n: equal to the original ones, or
\* different in one hour, or without the first hour.
RebuiltFor(orig) ==
    {orig}
    \cup UNION {{[orig EXCEPT ![t] = s] : s \in Differences(orig[t])} : t \in DOMAIN orig}
    \cup {[t \in DOMAIN orig \ {1} |-> orig[t]]}

OriginalStatistics == {[t \in 1..n |-> HourStatistics(1, 1)] : n \in 0..MaxCompared}

\* The timestamps compared in detail: the first SampleSize common ones.
SampleTimestamps(orig, rebuilt) ==
    LET common_timestamps == DOMAIN orig \cap DOMAIN rebuilt
    IN {t \in common_timestamps :
            Cardinality({u \in common_timestamps : u < t}) < SampleSize}

\* `orig_pv == recon_pv and orig_visits == recon_visits and dimensions_perfect`
PerfectMatch(orig, recon) ==
    /\ orig.site.Pageviews = recon.site.Pageviews
    /\ orig.site.Visits = recon.site.Visits
    /\ \A d \in Range(DimOrder) : orig[d] = recon[d]

\* return len(mismatches) == 0
compare_statistics(orig, rebuilt) ==
    {t \in SampleTimestamps(orig, rebuilt) : ~PerfectMatch(orig[t], rebuilt[t])} = {}

InitStatistics ==
    /\ SolverIdle
    /\ ComposerIdle
    /\ ConverterIdle
    /\ IPFIdle
    /\ vpc = "statistics"
    /\ original \in OriginalStatistics
    /\ reconstructed \in RebuiltFor(original)
    /\ all_match = FALSE

\* is_perfect = compare_statistics(original_stats, rebuilt_stats)
CompareStatistics ==
    /\ vpc = "statistics"
    /\ all_match' = compare_statistics(original, reconstructed)
    /\ vpc' = "compared"
    /\ UNCHANGED <<original, reconstructed, solverVars, composerVars, hourVars, ipfVars>>

SpecStatistics == InitStatistics /\ [][CompareStatistics]_vars

----------------------------------------------------------------------------
(* Re-aggregation and feasibility *)

\* Number of events carrying category c in dimension d.
Recount(evs, d, c) == Cardinality({i \in DOMAIN evs : evs[i][d] = c})

ActiveSet(m) == Range(ActiveDims(m))

\* Every active dimension sums to the same total N.
Feasible(m) ==
    \A d, e \in ActiveSet(m) : SumValues(m[d]) = SumValues(m[e])

Infeasible(m) ==
    \E d, e \in ActiveSet(m) : SumValues(m[d]) # SumValues(m[e])

QuotaPairs == {<<d, c>> \in (DOMAIN remaining_quotas) \X Range(CatOrder) :
                  c \in DOMAIN remaining_quotas[d]}

----------------------------------------------------------------------------
(* Claims *)

\* C1: Round-trip exactness. For jointly feasible marginals, the events returned by
\* solve_exact_distribution (or by solve_integer_assignment under any weight table),
\* counted per dimension and category, give exactly the input count of every
\* category of every active dimension; a category of count 0 is in no event.
C1_RoundTrip ==
    (pc = "returned" /\ Feasible(marginals)) =>
        \A d \in ActiveSet(marginals) : \A c \in DOMAIN marginals[d] :
            Recount(events, d, c) = marginals[d][c]

C1_Witness ==
    /\ pc = "returned"
    /\ Feasible(marginals)
    /\ Len(dim_names) = 3
    /\ Len(events) = 2
    /\ \E c \in DOMAIN marginals.pages : marginals.pages[c] = 0
    /\ \E c, e \in DOMAIN marginals.browsers : c # e /\ marginals.browsers[c] > 0
                                              /\ marginals.browsers[e] > 0

\* C2: No over-allocation. While the greedy walk runs and after it, every quota is
\* >= 0, the events carrying a value never exceed its input count, and no step of
\* the walk raises a quota.
C2_NoOverAllocation ==
    /\ [](pc \in {"walk", "returned"} =>
            /\ \A p \in QuotaPairs : remaining_quotas[p[1]][p[2]] >= 0
            /\ \A d \in Range(dim_names) : \A c \in DOMAIN marginals[d] :
                    Recount(events, d, c) <= marginals[d][c])
    /\ [][pc = "walk" =>
            \A p \in QuotaPairs :
                remaining_quotas'[p[1]][p[2]] <= remaining_quotas[p[1]][p[2]]]_vars

C2_Witness ==
    /\ pc = "walk"
    /\ idx > 2
    /\ \E p \in QuotaPairs :
          /\ p[1] \in Range(dim_names)
          /\ remaining_quotas[p[1]][p[2]] = 0
          /\ marginals[p[1]][p[2]] = MaxCount
    /\ \E p \in QuotaPairs : remaining_quotas[p[1]][p[2]] > 0

\* C3: Full consumption. When all active dimensions sum to N, the walk ends with
\* remaining_events = 0, exactly N events and every quota at 0, under every weight
\* table; for the scenario pages {/a:3, /b:2}, browsers {Chrome:4, Safari:1}, N = 5.
C3_FullConsumption ==
    (pc = "returned" /\ Feasible(marginals) /\ dim_names # <<>>) =>
        /\ remaining_events = 0
        /\ total_events = SumValues(marginals[dim_names[1]])
        /\ Len(events) = total_events
        /\ \A p \in QuotaPairs : remaining_quotas[p[1]][p[2]] = 0
        /\ marginals = ScenarioFeasible => Len(events) = 5

C3_Witness ==
    /\ pc = "returned"
    /\ marginals = ScenarioFeasible
    /\ Len(events) = 5
    /\ weights_table # <<>>
    /\ combo_weights # combinations

\* C4: Conservation. At every step of the walk, events emitted so far plus
\* remaining_events equals the target N, remaining_events is never negative, and
\* the number of events never exceeds N.
C4_Conservation ==
    pc \in {"walk", "returned"} =>
        /\ Len(events) + remaining_events = total_events
        /\ remaining_events >= 0
        /\ Len(events) <= total_events

C4_Witness ==
    /\ pc = "walk"
    /\ Len(events) > 0
    /\ remaining_events > 0
    /\ Infeasible(marginals)

\* C5: Infeasible marginals are reported, not thrown. When the sums of the active
\* dimensions differ the call does not raise, no category gets more events than its
\* count, and the number of returned events is below the target N the caller
\* passed (a nonzero residual); in the scenario pages {/a:3}, browsers {Chrome:1,
\* Safari:1}, N = 3, at most 2 events with at most 1 Chrome and 1 Safari.
C5_InfeasibleReported ==
    Infeasible(marginals) =>
        /\ pc # "raised"
        /\ pc = "returned" =>
            /\ total_events - Len(events) > 0
            /\ total_events = TotalEvents(marginals)
            /\ \A d \in ActiveSet(marginals) : \A c \in DOMAIN marginals[d] :
                    Recount(events, d, c) <= marginals[d][c]
            /\ marginals = ScenarioInfeasible =>
                /\ Len(events) <= 2
                /\ Recount(events, "browsers", "Chrome") <= 1
                /\ Recount(events, "browsers", "Safari") <= 1

C5_Witness ==
    /\ pc = "returned"
    /\ marginals = ScenarioInfeasible
    /\ Len(events) = 2
    /\ total_events = 3

\* The bucket convert_website processed last, and what verify_reconstruction.py
\* rebuilds from the records process_hour returned for it.
LastBucket == indexed_data[hour_idx - 1]

LastRebuilt == rebuild_fathom_statistics(load_synthetic_events(CsvRows(hour_events)))

\* dict.get(c, 0)
CountOf(counts, c) == IF c \in DOMAIN counts THEN counts[c] ELSE 0

\* The bucket's files agree: Pageviews > 0 and each of the five marginals, after the
\* '(direct)' insertion, sums to Pageviews.
AgreeingBucket(hourly_data) ==
    /\ hourly_data.site # <<>>
    /\ safe_int(hourly_data.site[1]["Pageviews"]) > 0
    /\ \A d \in Range(DimOrder) :
          SumValues(get_marginal_totals(hourly_data)[d]) =
              safe_int(hourly_data.site[1]["Pageviews"])

\* C7: for every hour with Pageviews > 0 whose five marginals each sum to
\* Pageviews, the pageview records process_hour returns, re-aggregated per hour
\* as rebuild_fathom_statistics does, give the hour's Pageviews and the count of
\* every category of every dimension, whatever Visits and Bounce Rate are.
C7_EndToEndRoundTrip ==
    (hpc = "converting" /\ hour_idx > 1 /\ AgreeingBucket(LastBucket)) =>
        LET m == get_marginal_totals(LastBucket)
            h == hour_idx - 2
        IN /\ h \in DOMAIN LastRebuilt
           /\ LastRebuilt[h].site.Pageviews = safe_int(LastBucket.site[1]["Pageviews"])
           /\ \A d \in Range(DimOrder) : \A c \in DOMAIN m[d] :
                 CountOf(LastRebuilt[h][d], c) = m[d][c]

\* r is n/d rounded to the nearest integer, a half going to the even neighbour.
IsRoundOf(r, n, d) ==
    /\ 2 * Abs(r * d - n) <= d
    /\ 2 * Abs(r * d - n) = d => r % 2 = 0

VisitIds == {enhanced_events[i].visit_id : i \in DOMAIN enhanced_events}

\* C9: Visit count. For E >= 1 events and V >= 1 the number of distinct visits in the
\* records equals V when E >= V and is smaller than V when E < V; no visit is empty.
C9_VisitCount ==
    (cpc = "done" /\ cs_events # <<>> /\ visit_count >= 1) =>
        /\ Len(cs_events) >= visit_count => Cardinality(VisitIds) = visit_count
        /\ Len(cs_events) < visit_count => Cardinality(VisitIds) < visit_count
        /\ Cardinality(VisitIds) = Len(visits)
        /\ \A i \in DOMAIN visits : visits[i] # <<>>

C9_Witness ==
    /\ cpc = "done"
    /\ visit_count = 3
    /\ Len(cs_events) = 4
    /\ Cardinality(VisitIds) = 3
    /\ bounced_visits(visit_count, bounce_rate) = 2

\* created_at lies in [bucket start, bucket start + 3600 s)
InBucket(offset) == offset[1] >= 0 /\ offset[1] < TimeSpread * offset[2]

\* C10: Intra-bucket timestamps. Every record of create_session_visits has created_at
\* in [bucket start, bucket start + 3600 s), for every visit count, visit size and
\* average duration.
C10_IntraBucket ==
    cpc = "done" =>
        \A i \in DOMAIN enhanced_events : InBucket(enhanced_events[i].created_at)

----------------------------------------------------------------------------
(* Claims about get_marginal_totals *)

\* The file columns of every dimension: category column, count column.
DimColumns ==
    [pages |-> <<"Pathname", "Views">>,
     browsers |-> <<"Browser", "Pageviews">>,
     countries |-> <<"Country", "Pageviews">>,
     devices |-> <<"Device Type", "Pageviews">>,
     referrers |-> <<"Referrer Hostname", "Views">>]

\* What a count field contributes: its number if it is an integer, else 0.
CoercedCount(cell) == IF DOMAIN cell = {"int"} THEN cell.int ELSE 0

RowKeys(rows, key_col) == {rows[i][key_col] : i \in DOMAIN rows}

RECURSIVE SumCoerced(_, _)
\* The sum of the coerced fields field[i], i in S.
SumCoerced(field, S) ==
    IF S = {} THEN 0
    ELSE LET i == CHOOSE j \in S : TRUE
         IN CoercedCount(field[i]) + SumCoerced(field, S \ {i})

\* The coerced counts of the rows of category `key`, summed.
RowSum(rows, key_col, count_col, key) ==
    SumCoerced([i \in DOMAIN rows |-> rows[i][count_col]],
               {i \in DOMAIN rows : rows[i][key_col] = key})

\* The bucket handed to get_marginal_totals.
ExtractedBucket == indexed_data[hour_idx]

SitePageviews(hourly_data) ==
    SumCoerced([i \in DOMAIN hourly_data.site |-> hourly_data.site[i]["Pageviews"]],
               DOMAIN hourly_data.site)

ExplicitReferrers(hourly_data) ==
    SumCoerced([i \in DOMAIN hourly_data.referrers |-> hourly_data.referrers[i]["Views"]],
               DOMAIN hourly_data.referrers)

\* C11: get_marginal_totals adds '(direct)' = site pageviews - explicit referrer
\* counts exactly when that difference is > 0, and then the referrers marginal
\* sums to the site pageviews; when the difference is <= 0 the referrers
\* marginal is what the rows give and has no '(direct)' key.
C11_DirectReferrer ==
    (hpc = "generating" /\ pc # "extract") =>
        LET hd == ExtractedBucket
            diff == SitePageviews(hd) - ExplicitReferrers(hd)
            hosts == RowKeys(hd.referrers, "Referrer Hostname")
        IN /\ \A h \in hosts :
                 /\ h \in DOMAIN marginals.referrers
                 /\ marginals.referrers[h] = RowSum(hd.referrers, "Referrer Hostname",
                                                    "Views", h)
           /\ diff > 0 =>
                 /\ DOMAIN marginals.referrers = hosts \cup {"(direct)"}
                 /\ marginals.referrers["(direct)"] = diff
                 /\ SumValues(marginals.referrers) = SitePageviews(hd)
           /\ diff <= 0 => DOMAIN marginals.referrers = hosts

C11_Witness ==
    /\ hpc = "generating"
    /\ pc = "returned"
    /\ Len(ExtractedBucket.referrers) = 2
    /\ SitePageviews(ExtractedBucket) = 2
    /\ DOMAIN marginals.referrers = {"(direct)", "google.com"}
    /\ marginals.referrers["google.com"] = 1
    /\ marginals.referrers["(direct)"] = 1

\* C12: a count field that is None, empty, whitespace or not a number adds 0 to
\* its category, and the count of a category is the sum of the coerced counts of
\* all its rows in the bucket.
C12_Coercion ==
    (hpc = "generating" /\ pc # "extract") =>
        \A d \in Range(DimOrder) :
            LET rows == ExtractedBucket[d]
                keys == RowKeys(rows, DimColumns[d][1])
            IN /\ DOMAIN marginals[d] \ {"(direct)"} = keys
               /\ \A key \in keys :
                     marginals[d][key] = RowSum(rows, DimColumns[d][1], DimColumns[d][2], key)

C12_Witness ==
    /\ hpc = "generating"
    /\ pc = "returned"
    /\ ExtractedBucket.pages = <<PageRow("/a", IntCell(2)), PageRow("/a", TextCell("abc"))>>
    /\ marginals.pages["/a"] = 2
    /\ Len(events) = 2

----------------------------------------------------------------------------
(* Claims about process_hour *)

FileDims == {"pages", "browsers", "countries", "devices"}

\* Pageviews > 0 and exactly one of the four dimension files has no row for the
\* bucket; nothing else is wrong with the bucket.
MissingOneDimension(hourly_data) ==
    /\ hourly_data.site # <<>>
    /\ safe_int(hourly_data.site[1]["Pageviews"]) > 0
    /\ hourly_data.Timestamp = "canonical"
    /\ hourly_data.events = <<>>
    /\ \E d \in FileDims :
          /\ hourly_data[d] = <<>>
          /\ \A e \in FileDims \ {d} : hourly_data[e] # <<>>

\* C13: for a bucket with Pageviews > 0 in which one dimension table has no
\* rows, process_hour returns the bucket's pageview events (the reconstruction
\* over the remaining dimensions) and does not discard the bucket.
C13_MissingDimensionNotFatal ==
    (hpc = "converting" /\ hour_idx = 2 /\ MissingOneDimension(LastBucket)) =>
        /\ CountType(hour_events, 1) > 0
        /\ stats.skipped_hours = 0


----------------------------------------------------------------------------
(* Claims about the IPF engines *)

\* Both engines agree with the recursive form of the loop used by the solver.
IPFAgreesWithLoop ==
    (ipc = "returned" /\ engine = "exact") =>
        /\ ipf_table = run_ipf_for_weights(marginals).table
        /\ ipf_iteration = run_ipf_for_weights(marginals).rounds

C15_NeverRaises == ipc # "raised"


\* A step of the loop keeps the zero weights at zero and makes none negative.
ZeroStays ==
    ipc \in {"rescale", "check"} =>
        \A c \in DOMAIN ipf_table :
            /\ ipf_table[c] = RZero => ipf_table'[c] = RZero
            /\ ipf_table'[c][1] >= 0

\* C16: IPF zero is absorbing. Every rescale step, and the return at the end
\* of a sweep, leaves a weight of 0 at 0, and leaves no weight negative.
C16_ZeroAbsorbing == [][ZeroStays]_vars

\* A returned table in which a combination pinned to zero in the first sweep
\* went through the second sweep next to combinations of positive weight.
C16_Witness ==
    /\ ipc = "returned"
    /\ Len(changes) = 2
    /\ \E c \in DOMAIN ipf_table : ipf_table[c] = RZero
    /\ \E c \in DOMAIN ipf_table : RPos(ipf_table[c])


\* C17: IPF monotone convergence. For feasible marginals (every non-empty
\* dimension sums to the same N > 0) run_ipf_for_weights sees a total change
\* that is strictly smaller at each sweep than at the sweep before, and it
\* returns within the 50 sweeps on a sweep whose change is below the tolerance.
C17_MonotoneConvergence ==
    (engine = "exact" /\ ipc \in {"rescale", "check", "returned"} /\ Feasible(marginals)) =>
        /\ \A i \in 1..(Len(changes) - 1) : RLess(changes[i + 1], changes[i])
        /\ Len(changes) <= IPFRounds
        /\ ipc = "returned" => BelowToleranceOf(changes[Len(changes)], ToleranceDen)

\* The feasible scenario of the specification (pages 3 + 2, browsers 4 + 1)
\* after its second and last sweep.
C17_Witness ==
    /\ engine = "exact"
    /\ ipc = "returned"
    /\ marginals = ScenarioFeasible
    /\ Len(changes) = 2
    /\ RLess(changes[2], changes[1])


----------------------------------------------------------------------------
(* Claims about the verifier *)

\* The categories of dimension dim present in either marginal.
EitherKeys(dim) ==
    (IF dim \in DOMAIN original THEN DOMAIN original[dim] ELSE {})
    \cup (IF dim \in DOMAIN reconstructed THEN DOMAIN reconstructed[dim] ELSE {})

\* The count of category c in dimension dim of m, an absent one counting as 0.
CountIn(m, dim, c) ==
    IF dim \in DOMAIN m /\ c \in DOMAIN m[dim] THEN m[dim][c] ELSE 0

\* The call returns TRUE exactly when every count agrees, and leaves both
\* arguments as they were.
ComparesExactly ==
    vpc = "compare" =>
        /\ all_match' = (\A dim \in Range(DimOrder) : \A c \in EitherKeys(dim) :
                            CountIn(original, dim, c) = CountIn(reconstructed, dim, c))
        /\ original' = original
        /\ reconstructed' = reconstructed

\* C18: Verifier result. compare_marginals returns True exactly when, for each
\* of the five dimensions and each category present in the original or in the
\* reconstructed marginal, the two counts are equal, an absent category
\* counting as 0; and it modifies neither argument.
C18_VerifierResult == [][ComparesExactly]_vars

\* A comparison that succeeded although the original carries a category with
\* count 0 that no event has, and one that failed.
C18_Witness ==
    /\ vpc = "compared"
    /\ all_match
    /\ events # <<>>
    /\ \E c \in DOMAIN original.pages : original.pages[c] = 0
    /\ DOMAIN original.pages # DOMAIN reconstructed.pages


----------------------------------------------------------------------------
(* Claims about the solver's preconditions and its target total *)

\* C19: Precondition violations are fatal. A call of the solver returns
\* normally only if some dimension is non-empty and the weight table it walks
\* has entries.
C19_PreconditionFatal ==
    pc = "returned" => (ActiveDims(marginals) # <<>> /\ weights_table # <<>>)


\* C20: Target total. Whenever solve_exact_distribution has handed a target
\* count to solve_integer_assignment, that count is the bucket's site
\* pageviews.
C20_TargetTotal ==
    (hpc = "generating" /\ pc \in {"walk", "returned"} /\ dim_names # <<>>) =>
        total_events = SitePageviews(ExtractedBucket)


----------------------------------------------------------------------------
(* Claims about the composer's degenerate cases, identities and conservation *)

\* C21: Composer degenerate cases. create_session_visits returns an empty list
\* for an empty event list, and for a target visit count of 0 with events (no
\* visit and no record); with more bounce visits requested than there are
\* events it makes exactly one single-event visit per event and nothing else.
C21_DegenerateCases ==
    cpc = "done" =>
        /\ cs_events = <<>> => enhanced_events = <<>>
        /\ visit_count = 0 => (visits = <<>> /\ enhanced_events = <<>>)
        /\ (cs_events # <<>> /\ bounced_visits(visit_count, bounce_rate) > Len(cs_events)) =>
              /\ Len(visits) = Len(cs_events)
              /\ \A i \in DOMAIN visits : visits[i] = <<cs_events[i]>>
              /\ Len(enhanced_events) = Len(cs_events)
              /\ Cardinality(VisitIds) = Len(cs_events)

\* Two events, target visit count 0: nothing is produced.
C21_Witness ==
    /\ cpc = "done"
    /\ Len(cs_events) = 2
    /\ visit_count = 0
    /\ enhanced_events = <<>>


RECURSIVE VisitIndexFrom(_, _, _)
\* The number of the visit that holds position i of the flattened visits.
VisitIndexFrom(vs, i, v) ==
    IF i <= Len(vs[v]) THEN v ELSE VisitIndexFrom(vs, i - Len(vs[v]), v + 1)

\* The visit in which record number i of the output was placed.
VisitIndex(i) == VisitIndexFrom(visits, i, 1)

\* C22: Visit identity. In the composer's output two records have the same
\* visit_id exactly when they were placed in the same visit, the same
\* session_id exactly when they were placed in the same visit, and every
\* record has its own event_id.
C22_VisitIdentity ==
    cpc = "done" =>
        \A i, j \in DOMAIN enhanced_events :
            /\ (enhanced_events[i].visit_id = enhanced_events[j].visit_id)
                  <=> (VisitIndex(i) = VisitIndex(j))
            /\ (enhanced_events[i].session_id = enhanced_events[j].session_id)
                  <=> (VisitIndex(i) = VisitIndex(j))
            /\ i # j => enhanced_events[i].event_id # enhanced_events[j].event_id


----------------------------------------------------------------------------
(* Claims about the converter's protocol, order, and error isolation *)

\* C23: Converter call protocol of the subset test. process_hour called on a
\* newly constructed converter, before any preload_all_data, does not fail.
C23_SubsetProtocol == ~(hpc = "failed" /\ indexed_data = None)


----------------------------------------------------------------------------
(* Claims about the greedy walk *)

\* The position of x in the sequence s of distinct elements.
PosIn(s, x) == CHOOSE i \in DOMAIN s : s[i] = x

\* C24 (as stated): the walk visits every combination of the cross-product,
\* so a call that has returned has gone through the whole sorted list.
C24_VisitsAll ==
    (pc = "returned" /\ combo_weights # <<>>) => idx = Len(combo_weights) + 1

\* C24 (amended): Walk order. The sorted list holds every combination of the
\* cross-product exactly once, weight 0 included, in non-increasing order of
\* weight, combinations of equal weight in their cross-product enumeration
\* order. The walk visits a prefix of that list in order, each combination
\* once, and it stops before the end only when no event remains; the events
\* come out in the order of the visits.
C24_WalkOrder ==
    pc \in {"walk", "returned"} =>
        /\ Len(combo_weights) = Len(combinations)
        /\ \A c \in Range(combinations) :
              Cardinality({i \in DOMAIN combo_weights : combo_weights[i] = c}) = 1
        /\ \A i, j \in DOMAIN combo_weights : i < j =>
              /\ ~RLess(WeightOf(weights_table, combo_weights[i]),
                        WeightOf(weights_table, combo_weights[j]))
              /\ WeightOf(weights_table, combo_weights[i])
                    = WeightOf(weights_table, combo_weights[j])
                 => PosIn(combinations, combo_weights[i])
                        < PosIn(combinations, combo_weights[j])
        /\ idx \in 1..(Len(combo_weights) + 1)
        /\ \A k \in DOMAIN events : PosIn(combo_weights, events[k]) < idx
        /\ \A k, l \in DOMAIN events : k < l =>
              PosIn(combo_weights, events[k]) <= PosIn(combo_weights, events[l])
        /\ (pc = "returned" /\ idx <= Len(combo_weights)) => remaining_events <= 0

\* A walk over four combinations with a tie of weights that returned after
\* its second visit because no event remained.
C24_Witness ==
    /\ pc = "returned"
    /\ Len(combo_weights) = 4
    /\ idx = 3
    /\ remaining_events = 0
    /\ Len(events) = 2
    /\ events[1] # events[2]
    /\ \E i, j \in DOMAIN combo_weights :
          /\ i < j
          /\ WeightOf(weights_table, combo_weights[i])
                = WeightOf(weights_table, combo_weights[j])


\* The hour, counted from the first hour of the first date, a row was written for.
WrittenHour(k) == HourKey(written[k].created_at)

\* The timestamps of the export that the debug date lets through.
SelectedTimestamps ==
    {csv_data[i].ts : i \in {j \in DOMAIN csv_data :
        debug_date = <<>> \/ StartsWith(csv_data[j].ts, debug_date)}}

\* C25: Output order. convert_website processes the buckets in ascending
\* timestamp order, each bucket exactly once, and writes all records of a
\* bucket before any record of a later bucket; in debug-date mode exactly the
\* buckets whose timestamp starts with the debug date are processed.
C25_OutputOrder ==
    hpc \in {"converting", "finished"} =>
        /\ \A i, j \in DOMAIN all_timestamps :
              i < j => LexLess(all_timestamps[i], all_timestamps[j])
        /\ Range(all_timestamps) = SelectedTimestamps
        /\ hour_idx \in 1..(Len(all_timestamps) + 1)
        /\ hpc = "finished" => hour_idx = Len(all_timestamps) + 1
        /\ \A k, l \in DOMAIN written : k < l => WrittenHour(k) <= WrittenHour(l)
        /\ \A i \in DOMAIN all_timestamps :
              Cardinality({k \in DOMAIN written :
                  WrittenHour(k) * TimeSpread = BaseOfTimestamp(all_timestamps[i])})
                = IF i < hour_idx THEN all_timestamps[i][2] ELSE 0

\* An export of three hours whose file is not in timestamp order, converted
\* with the debug date of two of them.
C25_Witness ==
    /\ hpc = "finished"
    /\ Len(csv_data) = 3
    /\ LexLess(csv_data[2].ts, csv_data[1].ts)
    /\ debug_date = <<1>>
    /\ Len(all_timestamps) = 2
    /\ Len(written) = 3


----------------------------------------------------------------------------
(* Claims about compare_statistics *)

\* The two statistics of hour t agree: Pageviews, Visits, and every count of
\* the five dimensions, an absent category counting as 0.
HourAgrees(t) ==
    /\ original[t].site.Pageviews = reconstructed[t].site.Pageviews
    /\ original[t].site.Visits = reconstructed[t].site.Visits
    /\ \A d \in Range(DimOrder) :
          \A c \in DOMAIN original[t][d] \cup DOMAIN reconstructed[t][d] :
              CountOf(original[t][d], c) = CountOf(reconstructed[t][d], c)

\* C26: Verification verdict. compare_statistics returns True only if the
\* statistics agree at every timestamp present in both the original and the
\* rebuilt statistics.
C26_Verdict ==
    (vpc = "compared" /\ all_match) =>
        \A t \in DOMAIN original \cap DOMAIN reconstructed : HourAgrees(t)


----------------------------------------------------------------------------
(* Claims about the assigned count *)

\* The smallest of the sums of the active dimensions.
MinDimensionSum(m) ==
    CHOOSE x \in {SumValues(m[d]) : d \in ActiveSet(m)} :
        \A d \in ActiveSet(m) : x <= SumValues(m[d])

\* C27: Assigned count. For non-negative integer marginals with at least one
\* active dimension, the number of events returned equals the minimum over
\* the active dimensions of the sum of the dimension's counts, under every
\* weight table, and at the end some active dimension has all its quotas at 0.
C27_AssignedCount ==
    (pc = "returned" /\ dim_names # <<>>) =>
        /\ Len(events) = MinDimensionSum(marginals)
        /\ \E d \in Range(dim_names) :
              \A c \in DOMAIN remaining_quotas[d] : remaining_quotas[d][c] = 0

\* Three active dimensions of different sums: fewer events than the target,
\* and a dimension with quota left.
C27_Witness ==
    /\ pc = "returned"
    /\ Len(dim_names) = 3
    /\ Len(events) = 1
    /\ total_events = 2
    /\ \E p \in QuotaPairs : remaining_quotas[p[1]][p[2]] > 0
    /\ weights_table # <<>>


----------------------------------------------------------------------------
(* Claims about the composer's conservation *)

\* The record rec was made from the event ev.
RecordOf(rec, ev) ==
    /\ rec.url_path = ev.pages
    /\ rec.browser = ev.browsers
    /\ rec.country = ev.countries
    /\ rec.device = ev.devices
    /\ rec.referrer_domain = (IF ev.referrers # "(direct)" THEN ev.referrers ELSE None)

\* The records of a call that returned are made, in order and one to one, from
\* a prefix of the events; the prefix is the whole list exactly when a
\* multi-page visit is planned or the bounce visits cover every event, and
\* otherwise it ends after the bounce visits.
PrefixEmitted ==
    cpc = "done" =>
        LET E == Len(cs_events)
            r == bounced_visits(visit_count, bounce_rate)
            n == Len(enhanced_events)
        IN /\ n <= E
           /\ \A i \in 1..n : RecordOf(enhanced_events[i], cs_events[i])
           /\ (n = E) <=> (visit_count - r > 0 \/ r >= E)
           /\ n < E => n = r

\* No step of the call changes the list it was given.
InputKept == cpc \in {"start", "bounced", "distributed"} => cs_events' = cs_events

\* C28: Composer conservation. The records create_session_visits returns
\* correspond, in order and one to one, to a prefix of the input list, which
\* is not modified; the prefix is the whole list exactly when
\* visit_count - round(visit_count * bounce_rate) > 0 or
\* round(visit_count * bounce_rate) >= number of events, and otherwise the
\* events after the first round(visit_count * bounce_rate) are not emitted.
C28_ComposerConservation == []PrefixEmitted /\ [][InputKept]_vars

\* Four events, two visits, both bounces: the last two events are dropped.
C28_Witness ==
    /\ cpc = "done"
    /\ Len(cs_events) = 4
    /\ visit_count = 2
    /\ bounced_visits(visit_count, bounce_rate) = 2
    /\ Len(enhanced_events) = 2


----------------------------------------------------------------------------
(* Claims about hours with Visits = 0 and hours that raise *)

IsPageview(e) == e.event_type = 1
IsCustom(e) == e.event_type = 2

\* The site row reads Visits = 0 and Pageviews > 0.
ZeroVisitRow(hourly_data) ==
    /\ hourly_data.site # <<>>
    /\ safe_int(hourly_data.site[1]["Visits"]) = 0
    /\ safe_int(hourly_data.site[1]["Pageviews"]) > 0

RECURSIVE CompletionsFrom(_, _)
\* The completions of the events rows from row i on.
CompletionsFrom(rows, i) ==
    IF i > Len(rows) THEN 0
    ELSE (IF rows[i]["Completions"].int > 0 THEN rows[i]["Completions"].int ELSE 0)
         + CompletionsFrom(rows, i + 1)

\* The events the solver returns for the bucket, none when it raises.
SolverEvents(hourly_data) == solve_exact_distribution(get_marginal_totals(hourly_data)).events

\* The hour just processed was a zero-visit hour for which the solver returned
\* an event and whose events were generated: its records are one pageview record, made from the first solver event, and
\* after it one custom record per completion.
ZeroVisitHour ==
    (/\ hpc = "converting"
     /\ hour_idx <= Len(indexed_data)
     /\ hour_idx' = hour_idx + 1
     /\ ZeroVisitRow(indexed_data[hour_idx])
     /\ SolverEvents(indexed_data[hour_idx]) # <<>>
     /\ stats'.skipped_hours = stats.skipped_hours) =>
        LET hourly_data == indexed_data[hour_idx]
            solved == SolverEvents(hourly_data)
            views == SelectSeq(hour_events', IsPageview)
            custom == SelectSeq(hour_events', IsCustom)
        IN /\ Len(views) = 1
           /\ RecordOf(views[1], solved[1])
           /\ hour_events' = views \o custom
           /\ \A i \in DOMAIN custom : custom[i].visit_id # views[1].visit_id
           /\ hourly_data.Timestamp = "canonical" =>
                 Len(custom) = CompletionsFrom(hourly_data.events, 1)

NonNumericCompletions(hourly_data) ==
    /\ hourly_data.Timestamp = "canonical"
    /\ \E i \in DOMAIN hourly_data.events : CompletionsRaises(hourly_data.events[i])

\* Generating the events of the bucket raises: the site row has pageviews and
\* a Completions cell is not an integer, a dimension key is missing from the
\* solver's events, or the Timestamp text is not a date.
RaisingHour(hourly_data) ==
    /\ hourly_data.site # <<>>
    /\ safe_int(hourly_data.site[1]["Pageviews"]) > 0
    /\ \/ NonNumericCompletions(hourly_data)
       \/ MissingOneDimension(hourly_data)
       \/ hourly_data.Timestamp = "invalid"

\* An hour that raises gives no records, counts as one skipped hour, leaves
\* the three totals alone and does not end the loop.
RaisingHourIsolated ==
    (/\ hpc = "converting"
     /\ hour_idx <= Len(indexed_data)
     /\ hour_idx' = hour_idx + 1
     /\ RaisingHour(indexed_data[hour_idx])) =>
        /\ hour_events' = <<>>
        /\ written' = written
        /\ stats'.skipped_hours = stats.skipped_hours + 1
        /\ stats'.total_events = stats.total_events
        /\ stats'.total_pageviews = stats.total_pageviews
        /\ stats'.total_custom_events = stats.total_custom_events
        /\ hpc' = "converting"

\* The counters after any number of hours.
StatsConsistent ==
    (hpc \in {"converting", "finished"}) =>
        /\ stats.total_events = stats.total_pageviews + stats.total_custom_events
        /\ stats.total_hours = hour_idx - 1
        /\ stats.skipped_hours <= stats.total_hours
        /\ hpc = "finished" => stats.total_hours = Len(indexed_data)

\* C30: Per-hour error isolation. If generating the events of an hour raises
\* (a non-numeric Completions value, a missing dimension key), process_hour
\* returns an empty list, increases skipped_hours by exactly 1 and leaves
\* total_events, total_pageviews and total_custom_events unchanged, and the
\* following hours are still processed; after any sequence of hours
\* total_events = total_pageviews + total_custom_events and
\* skipped_hours <= number of hours processed.
C30_ErrorIsolation == []StatsConsistent /\ [][RaisingHourIsolated]_vars

\* An hour with a non-numeric Completions value was skipped and the hour after
\* it gave records.
C30_Witness ==
    /\ hpc = "finished"
    /\ Len(indexed_data) >= 2
    /\ NonNumericCompletions(indexed_data[1])
    /\ RaisingHour(indexed_data[1])
    /\ stats.skipped_hours = 1
    /\ stats.total_hours = Len(indexed_data)
    /\ stats.total_events > 0
    /\ stats.total_custom_events > 0

====
